---- MODULE Spec2Model ----
(***************************************************************************)
(* Model of the document pipeline of lib/pipeline (processDocumentsPipeline *)
(* and its stage functions processDocumentStep0 .. processStep4 and         *)
(* saveResults).  One run of the pipeline is a state machine: the           *)
(* synchronous segments of the async function are the actions, the awaits  *)
(* are the points where the per-document units interleave.                  *)
(*                                                                          *)
(* Values.  A legal position and a case card are identified by the index   *)
(* of the input file whose text they were extracted from (field src), so   *)
(* that "the card of document i" can be told from "a card stored at        *)
(* position i".  Case numbers are integers: 0 is the empty / undefined     *)
(* case number, Absent is a card without the caseNumber key.  Token counts *)
(* and costs are integers (costs in micro-units of the price table).       *)
(*                                                                          *)
(* A per-document unit (processDocumentStep0, processStep1) shares no state *)
(* with its siblings, so its chain of awaits is one step: the unit settles  *)
(* with the record its try/catch returns for the outcome of its calls.      *)
(* The optional onProgress sink is a log of the invocations a callback      *)
(* would receive (api/process/route.ts, the only caller, passes none).      *)
(*                                                                          *)
(* Specifications.  Spec and SpecIsolation follow one run of the pipeline;  *)
(* there a model call and the JSON extraction appear only through their     *)
(* outcome.  Three functions are also followed on their own: SpecStep1      *)
(* applies processStep1 to any document, SpecCall follows one callOpenAI    *)
(* (lib/llm-client) request by request, and SpecExtract applies the JSON    *)
(* extraction of S0, S1 and S3 to an answer text given as tokens           *)
(* (SpecExtractPlain: to an answer that holds no object).  Two more follow  *)
(* what several requests served by one process share: SpecClient the        *)
(* module-level client handle under concurrent callOpenAI invocations,      *)
(* SpecSave the run directories of concurrent saveResults calls.  The       *)
(* variables of the parts a specification does not follow stay idle.        *)
(* SpecFair and SpecCallFair add weak fairness of the steps, which stands   *)
(* for awaited calls that settle.  A run starts in a process with or        *)
(* without the API key; without it no model call returns a response.        *)
(***************************************************************************)
EXTENDS Integers, Sequences, FiniteSets, TLC

\* ---------------------------------------------------------------- bounds
MaxDocs == 2

\* longest string value of an object given to the JSON extraction
MaxStringLen == 1

\* callOpenAI invocations in flight in one process
MaxCallers == 5

\* pipeline runs served by one process, and the span of time followed
MaxRuns == 3
MaxClock == 3

FileNames == {"a.docx", "b.docx"}

\* ------------------------------------------------------------ value space
Absent == -1

\* the case number printed in the text of input file i
DocCaseNumber(i) == i

\* the case number the model writes into the card of file i when it writes one
CardCaseNumber(i) == 10 + i

\* reviewSkeleton?: ReviewSkeleton left undefined
NoSkeleton == [kind |-> "undefined", caseIndices |-> {}]

NoCard == [kind |-> "undefined", src |-> 0, caseNumber |-> Absent]

ZeroUsage == [promptTokens |-> 0, completionTokens |-> 0, cachedTokens |-> 0, totalTokens |-> 0]

ZeroCost == [inputCost |-> 0, cachedInputCost |-> 0, outputCost |-> 0, totalCost |-> 0]

\* what callOpenAI resolves with: usage and cost of one answered call; each stage
\* calls its own model, so the figures differ from stage to stage
ApiResponses(step) ==
  { [usage |-> [promptTokens |-> 4 + step, completionTokens |-> 2, cachedTokens |-> 1,
                totalTokens |-> 6 + step],
     cost  |-> [inputCost |-> 3 + step, cachedInputCost |-> 1, outputCost |-> 4,
                totalCost |-> 8 + step]] }

\* error messages (the text after the stage prefix)
ConversionError == "conversion"
PromptLoadError == "prompt"
InvocationError == "invocation"
MalformedOutputError == "malformed"
NoPositionError == "no-position"
Step0Errors == {ConversionError, PromptLoadError, InvocationError, MalformedOutputError}
Step1Errors == {PromptLoadError, InvocationError, MalformedOutputError}
StageErrors == {PromptLoadError, InvocationError, MalformedOutputError}

\* ---------------------------------------------------------------- state
VARIABLES
  files,            \* input: sequence of file names
  pc,               \* position of processDocumentsPipeline
  unit0,            \* per input file: state of its processDocumentStep0 promise
  step0Results,     \* per input file: what its S0 promise resolved with
  step1Docs,        \* the documents handed to processStep1, in order
  unit1,            \* per S1 unit: state of its processStep1 promise
  step1Results,     \* per S1 unit: what its promise resolved with
  documents,        \* documents (after S0)
  updatedDocuments, \* updatedDocuments (after the S1 merge)
  caseCards,        \* caseCards / groupedCards
  steps,            \* costStatistics.steps of the run
  total,            \* costStatistics.total of the run
  skeleton,         \* skeleton returned by S3
  review,           \* review returned by S4 ("": none)
  cardsToS3,        \* cardsData serialized into the S3 request
  cardsToS4,        \* cardsContext serialized into the S4 request
  saved,            \* documents written by saveResults
  exit,             \* which return statement the run took
  result,           \* the PipelineResult the run resolved with
  modelCalls,       \* the callOpenAI invocations issued so far: [step, unit, input,
                    \* answered]
  progress,         \* the onProgress invocations made so far: [step, current, total]
  invoked           \* the calls of processStep3, processStep4, saveResults so far

pipelineVars == <<files, pc, unit0, step0Results, step1Docs, unit1, step1Results,
                  documents, updatedDocuments, caseCards, steps, total, skeleton,
                  review, cardsToS3, cardsToS4, saved, exit, result, modelCalls,
                  progress, invoked>>

\* callOpenAI (lib/llm-client.ts). The run above sees a call only through what it
\* resolves or rejects with; the call itself is followed step by step here.
VARIABLES
  apiKey,             \* process.env.OPENAI_API_KEY is set
  openaiInstance,     \* the module-level client handle (0: null)
  cpc,                \* position of callOpenAI
  model,              \* parameter model
  useFlex,            \* parameter useFlex
  attempt,            \* loop variable of the Flex retry loop
  usedModel,          \* let usedModel
  actuallyUsedFlex,   \* let actuallyUsedFlex
  fallbackToStandard, \* let fallbackToStandard
  requests,           \* the provider requests issued so far, with what each led to
  delays,             \* the delay(ms) calls made so far
  apiResponse         \* what the call settled with

callVars == <<apiKey, openaiInstance, cpc, model, useFlex, attempt, usedModel,
              actuallyUsedFlex, fallbackToStandard, requests, delays, apiResponse>>

\* the JSON extraction of processDocumentStep0, processStep1 and processStep3,
\* which the run above sees only as "parsed" or "malformed"
VARIABLES
  epc,       \* position of the extraction
  stage,     \* the stage whose code extracts: 0, 1 or 3
  original,  \* the object the model rendered into its answer
  raw,       \* apiResponse.content, as a sequence of tokens
  parsed,    \* what the extraction ended with
  docCaseNumber, \* document.caseNumber of the document S1 works on (0: empty)
  accepted   \* the stage went on with the parsed value as its result

extractVars == <<epc, stage, original, raw, parsed, docCaseNumber, accepted>>

\* what the requests served by one process share: the client handle of
\* lib/llm-client (openaiInstance above) and the clock saveResults reads
VARIABLES
  caller,        \* per callOpenAI invocation: its position
  held,          \* per callOpenAI invocation: the handle getOpenAIClient returned (0: none)
  constructions, \* how many times new OpenAI(...) has run
  now,           \* the clock, in half milliseconds
  runPc,         \* per pipeline run: its position around saveResults
  sessionDir     \* per pipeline run: the sessionDir its saveResults computed

processVars == <<caller, held, constructions, now, runPc, sessionDir>>

\* the variables of the library functions that are followed on their own
libraryVars == <<callVars, extractVars, processVars>>

vars == <<pipelineVars, libraryVars>>

\* no callOpenAI invocation is being followed
NoApiResponse ==
  [status |-> "pending", cause |-> "", usage |-> ZeroUsage, cost |-> ZeroCost,
   pricing |-> [table |-> "", entry |-> ""], usedFlex |-> FALSE,
   fallbackToStandard |-> FALSE]

\* no callOpenAI invocation is under way and no client has been constructed
CallAtRest ==
  /\ openaiInstance = 0
  /\ cpc = "idle"
  /\ model = ""
  /\ useFlex = FALSE
  /\ attempt = 0
  /\ usedModel = ""
  /\ actuallyUsedFlex = FALSE
  /\ fallbackToStandard = FALSE
  /\ requests = <<>>
  /\ delays = <<>>
  /\ apiResponse = NoApiResponse

CallIdle ==
  /\ apiKey = TRUE
  /\ openaiInstance = 0
  /\ cpc = "idle"
  /\ model = ""
  /\ useFlex = FALSE
  /\ attempt = 0
  /\ usedModel = ""
  /\ actuallyUsedFlex = FALSE
  /\ fallbackToStandard = FALSE
  /\ requests = <<>>
  /\ delays = <<>>
  /\ apiResponse = NoApiResponse

\* a JSON value: a string (its characters) or an object (its members in order)
Str(chars) == [type |-> "string", chars |-> chars, members |-> <<>>]
Obj(members) == [type |-> "object", chars |-> <<>>, members |-> members]

\* the other JSON values: a number (its digit), null, an array (its elements)
Num(digit) == [type |-> "number", chars |-> <<digit>>, members |-> <<>>]
Null == [type |-> "null", chars |-> <<>>, members |-> <<>>]
Arr(elements) == [type |-> "array", chars |-> <<>>, members |-> elements]

\* JSON.parse threw, or the value was rejected
NotParsed == [ok |-> FALSE, value |-> Str(<<>>)]

ExtractIdle ==
  /\ epc = "idle"
  /\ stage = 0
  /\ original = Obj(<<>>)
  /\ raw = <<>>
  /\ parsed = NotParsed
  /\ docCaseNumber = 0
  /\ accepted = FALSE

ProcessIdle ==
  /\ caller = <<>>
  /\ held = <<>>
  /\ constructions = 0
  /\ now = 0
  /\ runPc = <<>>
  /\ sessionDir = <<>>

LibraryIdle == CallIdle /\ ExtractIdle /\ ProcessIdle

\* --------------------------------------------------------- stage functions
\* processDocumentStep0: convert, load the prompt, call the model, extract and
\* parse the JSON; every failure is caught and returned attached to the document.
Step0Outcomes(i) ==
  [kind : Step0Errors] \cup
  [kind : {"ok"}, resp : ApiResponses(0), caseNumber : {0, DocCaseNumber(i)}]

processDocumentStep0(i, fileName, o) ==
  IF o.kind = "ok"
  THEN [result |-> [fileName |-> fileName, caseNumber |-> o.caseNumber,
                    legalPositionParsed |-> i, caseCard |-> NoCard, error |-> ""],
        cost |-> o.resp.cost, usage |-> o.resp.usage]
  ELSE [result |-> [fileName |-> fileName, caseNumber |-> 0,
                    legalPositionParsed |-> 0, caseCard |-> NoCard, error |-> o.kind],
        cost |-> ZeroCost, usage |-> ZeroUsage]

\* processDocumentStep0 reaches callOpenAI once the conversion and the prompt
\* template have succeeded
Step0CallsModel(o) == o.kind \notin {ConversionError, PromptLoadError}

\* callOpenAI resolved with a response: the stage went on to read its content,
\* whether or not the content could then be parsed
CallReturned(o) == o.kind \notin {ConversionError, PromptLoadError, InvocationError}

\* the outcomes a stage can meet in this process: without the API key
\* getOpenAIClient throws inside callOpenAI, so no invocation returns a response
Allowed(outcomes) == {o \in outcomes : apiKey \/ ~CallReturned(o)}

\* the error message processStep1 attaches in its catch block
Step1ErrorMessage(kind) == "card: " \o kind

\* doc.caseCard as a condition
Truthy(card) == card.kind \in {"object", "scalar"}

\* JSON.parse results of the S1 answer: an object (with or without the
\* caseNumber key), a falsy scalar (0, false, ""), a truthy scalar (5, "x", true)
Step1Outcomes(doc) ==
  [kind : Step1Errors] \cup
  [kind : {"object"}, resp : ApiResponses(1),
   caseNumber : {Absent, CardCaseNumber(doc.legalPositionParsed)}] \cup
  [kind : {"falsy", "scalar"}, resp : ApiResponses(1)]

Step1Failure(doc, msg) ==
  [result |-> [doc EXCEPT !.error = msg], cost |-> ZeroCost, usage |-> ZeroUsage]

\* mutant of processStep1: the card is returned as the model wrote it
processStep1_NoInjection(doc, o) ==
  IF doc.legalPositionParsed = 0
  THEN Step1Failure(doc, NoPositionError)
  ELSE IF o.kind \in Step1Errors
  THEN Step1Failure(doc, Step1ErrorMessage(o.kind))
  ELSE [result |-> [doc EXCEPT !.caseCard =
                      [kind |-> o.kind, src |-> doc.legalPositionParsed,
                       caseNumber |-> IF o.kind = "object" THEN o.caseNumber
                                      ELSE Absent]],
        cost |-> o.resp.cost, usage |-> o.resp.usage]

processStep1(doc, o) ==
  IF doc.legalPositionParsed = 0
  THEN Step1Failure(doc, NoPositionError)
  ELSE IF o.kind \in Step1Errors
  THEN Step1Failure(doc, Step1ErrorMessage(o.kind))
  ELSE IF o.kind = "object"
  THEN [result |-> [doc EXCEPT !.caseCard =
                      [kind |-> "object", src |-> doc.legalPositionParsed,
                       caseNumber |-> IF o.caseNumber = Absent /\ doc.caseNumber # 0
                                      THEN doc.caseNumber ELSE o.caseNumber]],
        cost |-> o.resp.cost, usage |-> o.resp.usage]
  ELSE IF doc.caseNumber # 0
  THEN \* caseCard.caseNumber = ... on a primitive throws in strict mode
       Step1Failure(doc, Step1ErrorMessage(MalformedOutputError))
  ELSE [result |-> [doc EXCEPT !.caseCard =
                      [kind |-> o.kind, src |-> doc.legalPositionParsed,
                       caseNumber |-> Absent]],
        cost |-> o.resp.cost, usage |-> o.resp.usage]

\* mutant of Step1CallsModel: the legal-position check is skipped
Step1CallsModel_Unguarded(doc, o) == o.kind # PromptLoadError

\* processStep1 reaches callOpenAI past the legal-position check and the prompt
\* template
Step1CallsModel(doc, o) == doc.legalPositionParsed # 0 /\ o.kind # PromptLoadError

\* cardsData / cardsContext of processStep3 and processStep4: card k is labelled
\* from documents[k]; the spread of the card comes last and overrides caseNumber
\* when the card has that key
CardLabel(card, k, docs) ==
  [index |-> k,
   fileName |-> IF k <= Len(docs) THEN docs[k].fileName ELSE "Document",
   caseNumber |-> IF card.caseNumber # Absent THEN card.caseNumber
                  ELSE IF k <= Len(docs) /\ docs[k].caseNumber # 0 THEN docs[k].caseNumber
                  ELSE 0,
   src |-> card.src]

\* mutant of cardsData: the cards are numbered from 0
cardsData_ZeroBased(cards, docs) ==
  [k \in 1..Len(cards) |-> [CardLabel(cards[k], k, docs) EXCEPT !.index = k - 1]]

cardsData(cards, docs) == [k \in 1..Len(cards) |-> CardLabel(cards[k], k, docs)]

\* ------------------------------------------------------- cost aggregation
RECURSIVE SumSeq(_)
SumSeq(s) == IF s = <<>> THEN 0 ELSE Head(s) + SumSeq(Tail(s))

SumOver(results, F(_)) == SumSeq([k \in 1..Len(results) |-> F(results[k])])

InputTokens(r) == r.usage.promptTokens - r.usage.cachedTokens
CachedTokens(r) == r.usage.cachedTokens
OutputTokens(r) == r.usage.completionTokens
TotalTokens(r) == r.usage.totalTokens
InputCost(r) == r.cost.inputCost
CachedCost(r) == r.cost.cachedInputCost
OutputCost(r) == r.cost.outputCost
TotalCost(r) == r.cost.totalCost

\* step0Stats / step1Stats: one entry per settled unit, summed field by field
StepStats(n, results) ==
  [step |-> n, calls |-> Len(results),
   tokens |-> [input |-> SumOver(results, InputTokens),
               cachedInput |-> SumOver(results, CachedTokens),
               output |-> SumOver(results, OutputTokens),
               total |-> SumOver(results, TotalTokens)],
   cost |-> [input |-> SumOver(results, InputCost),
             cachedInput |-> SumOver(results, CachedCost),
             output |-> SumOver(results, OutputCost),
             total |-> SumOver(results, TotalCost)]]

\* step3Stats / step4Stats: the single call of the stage
SingleCallStats(n, r) == StepStats(n, <<r>>)

ZeroTotal ==
  [tokens |-> [input |-> 0, cachedInput |-> 0, output |-> 0, total |-> 0],
   cost |-> [input |-> 0, cachedInput |-> 0, output |-> 0, total |-> 0]]

\* mutant of AddStep: the cached-input tokens are left out of the total
AddStep_SkipsCachedInput(t, s) ==
  [tokens |-> [input |-> t.tokens.input + s.tokens.input,
               cachedInput |-> t.tokens.cachedInput,
               output |-> t.tokens.output + s.tokens.output,
               total |-> t.tokens.total + s.tokens.total],
   cost |-> [input |-> t.cost.input + s.cost.input,
             cachedInput |-> t.cost.cachedInput + s.cost.cachedInput,
             output |-> t.cost.output + s.cost.output,
             total |-> t.cost.total + s.cost.total]]

\* total.x += step.x for the four token fields and the four cost fields
AddStep(t, s) ==
  [tokens |-> [input |-> t.tokens.input + s.tokens.input,
               cachedInput |-> t.tokens.cachedInput + s.tokens.cachedInput,
               output |-> t.tokens.output + s.tokens.output,
               total |-> t.tokens.total + s.tokens.total],
   cost |-> [input |-> t.cost.input + s.cost.input,
             cachedInput |-> t.cost.cachedInput + s.cost.cachedInput,
             output |-> t.cost.output + s.cost.output,
             total |-> t.cost.total + s.cost.total]]

\* costStatistics.steps.forEach(...) accumulating into costStatistics.total
RECURSIVE TotalOf(_, _)
TotalOf(t, ss) == IF ss = <<>> THEN t ELSE TotalOf(AddStep(t, Head(ss)), Tail(ss))

\* ------------------------------------------------------------- the run
\* a promise that has not resolved yet holds no value
Unsettled ==
  [result |-> [fileName |-> "", caseNumber |-> 0, legalPositionParsed |-> 0,
               caseCard |-> NoCard, error |-> ""],
   cost |-> ZeroCost, usage |-> ZeroUsage]

NoResult ==
  [documents |-> <<>>, caseCards |-> <<>>, reviewSkeleton |-> NoSkeleton, review |-> "",
   costStatistics |-> [steps |-> <<>>, total |-> ZeroTotal], error |-> ""]

Batches == UNION {[1..n -> FileNames] : n \in 1..MaxDocs}

PipelineStart(batch) ==
  /\ files = batch
  /\ pc = "start"
  /\ unit0 = [i \in 1..Len(batch) |-> "idle"]
  /\ step0Results = [i \in 1..Len(batch) |-> Unsettled]
  /\ step1Docs = <<>>
  /\ unit1 = <<>>
  /\ step1Results = <<>>
  /\ documents = <<>>
  /\ updatedDocuments = <<>>
  /\ caseCards = <<>>
  /\ steps = <<>>
  /\ total = ZeroTotal
  /\ skeleton = NoSkeleton
  /\ review = ""
  /\ cardsToS3 = <<>>
  /\ cardsToS4 = <<>>
  /\ saved = <<>>
  /\ exit = "running"
  /\ result = NoResult
  /\ modelCalls = {}
  /\ progress = <<>>
  /\ invoked = <<>>

\* a run starts in a process with or without OPENAI_API_KEY
InitWith(batch) ==
  /\ PipelineStart(batch)
  /\ apiKey \in BOOLEAN
  /\ CallAtRest
  /\ ExtractIdle
  /\ ProcessIdle

Init == \E batch \in Batches : InitWith(batch)

\* mutant of PromiseAll: resumes as soon as one promise has resolved
PromiseAll_FirstSettled(units) == \E i \in DOMAIN units : units[i] = "settled"

\* await Promise.all(promises): resumes when every promise has resolved
PromiseAll(units) == \A i \in DOMAIN units : units[i] = "settled"

\* mutant of Launched: the units are reported by their index
Launched_ZeroBased(log, step, units, totalUnits) ==
  log \o <<[step |-> step, current |-> 0, total |-> totalUnits]>>
      \o [k \in 1..units |-> [step |-> step, current |-> k - 1, total |-> totalUnits]]

\* onProgress(step, 0, total, ...) and then, inside the map callback that
\* creates the promise of unit index, onProgress(step, index + 1, total, ...)
Launched(log, step, units, totalUnits) ==
  log \o <<[step |-> step, current |-> 0, total |-> totalUnits]>>
      \o [k \in 1..units |-> [step |-> step, current |-> k, total |-> totalUnits]]

\* onProgress(step, 1, 1, ...) of the single-call stages
Announced(log, step) == Append(log, [step |-> step, current |-> 1, total |-> 1])

\* the catch block of processDocumentsPipeline
FatalResult(msg) ==
  [documents |-> <<>>, caseCards |-> <<>>, reviewSkeleton |-> NoSkeleton, review |-> "",
   costStatistics |-> [steps |-> <<>>, total |-> ZeroTotal], error |-> msg]

\* the callback may throw: 0 says it returns every time, t >= 1 says its t-th
\* invocation of the stage throws (the first is the stage-start one)
ProgressFaults(units) == 0..(units + 1)

\* the invocations made when the t-th one throws: it and those before it
Reported(log, step, units, totalUnits, t) ==
  IF t = 0 THEN Launched(log, step, units, totalUnits)
  ELSE SubSeq(Launched(log, step, units, totalUnits), 1, Len(log) + t)

\* the units whose promise was created before the callback threw
LaunchedUnits(units, t) == IF t = 0 THEN units ELSE IF t = 1 THEN 0 ELSE t - 2

ProgressError == "progress"

\* files.map(... processDocumentStep0(file.fileName, file.buffer)): every S0 unit
\* is started in the same synchronous segment, then the run awaits them all; a
\* throw of the callback leaves the map for the catch block of the run
StartStep0 ==
  /\ pc = "start"
  /\ \E t \in ProgressFaults(Len(files)) :
       /\ unit0' = [i \in DOMAIN unit0 |->
                      IF i <= LaunchedUnits(Len(files), t) THEN "pending" ELSE "idle"]
       /\ progress' = Reported(progress, 0, Len(files), Len(files), t)
       /\ IF t = 0
          THEN /\ pc' = "awaitS0"
               /\ UNCHANGED <<exit, result>>
          ELSE /\ result' = FatalResult(ProgressError)
               /\ exit' = "fatalProgress"
               /\ pc' = "done"
  /\ UNCHANGED <<modelCalls, invoked>>
  /\ UNCHANGED <<files, step0Results, step1Docs, unit1, step1Results, documents,
                 updatedDocuments, caseCards, steps, total, skeleton, review,
                 cardsToS3, cardsToS4, saved>>
  /\ UNCHANGED libraryVars

\* one processDocumentStep0 promise resolves; a unit created before the
\* callback threw runs on after the run has returned
SettleStep0(i) ==
  /\ pc = "awaitS0" \/ exit = "fatalProgress"
  /\ unit0[i] = "pending"
  /\ \E o \in Allowed(Step0Outcomes(i)) :
       /\ step0Results' = [step0Results EXCEPT ![i] = processDocumentStep0(i, files[i], o)]
       /\ modelCalls' = IF Step0CallsModel(o)
                        THEN modelCalls \cup {[step |-> 0, unit |-> i, input |-> i,
                                               answered |-> CallReturned(o)]}
                        ELSE modelCalls
  /\ unit0' = [unit0 EXCEPT ![i] = "settled"]
  /\ UNCHANGED <<files, pc, step1Docs, unit1, step1Results, documents,
                 updatedDocuments, caseCards, steps, total, skeleton, review,
                 cardsToS3, cardsToS4, saved, exit, result, progress, invoked>>
  /\ UNCHANGED libraryVars

\* documents.filter((doc) => !doc.error && doc.legalPositionParsed)
Survives(doc) == doc.error = "" /\ doc.legalPositionParsed # 0

\* mutant of StopAfterStep0: returns the empty lists of the catch block
StopAfterStep0_NoDocuments(docs, step0Stats) ==
  [documents |-> <<>>, caseCards |-> <<>>, reviewSkeleton |-> NoSkeleton, review |-> "",
   costStatistics |-> [steps |-> <<>>, total |-> ZeroTotal],
   error |-> "all documents failed"]

\* return of the "no valid documents" branch
StopAfterStep0(docs, step0Stats) ==
  [documents |-> docs, caseCards |-> <<>>, reviewSkeleton |-> NoSkeleton, review |-> "",
   costStatistics |-> [steps |-> <<step0Stats>>,
                       total |-> [tokens |-> step0Stats.tokens, cost |-> step0Stats.cost]],
   error |-> "all documents failed"]

\* the segment between the S0 join and the S1 join
AfterStep0 ==
  /\ pc = "awaitS0"
  /\ PromiseAll(unit0)
  /\ LET docs == [i \in DOMAIN step0Results |-> step0Results[i].result]
         step0Stats == StepStats(0, step0Results)
         survivors == SelectSeq(docs, Survives)
     IN /\ documents' = docs
        /\ steps' = Append(steps, step0Stats)
        /\ IF \E i \in DOMAIN docs : Survives(docs[i])
           THEN \E t \in ProgressFaults(Len(survivors)) :
                  /\ step1Docs' = survivors
                  /\ unit1' = [k \in 1..Len(survivors) |->
                                 IF k <= LaunchedUnits(Len(survivors), t)
                                 THEN "pending" ELSE "idle"]
                  /\ step1Results' = [k \in 1..Len(survivors) |-> Unsettled]
                  /\ progress' = Reported(progress, 1, Len(survivors), Len(docs), t)
                  /\ IF t = 0
                     THEN /\ pc' = "awaitS1"
                          /\ UNCHANGED <<exit, result>>
                     ELSE /\ result' = FatalResult(ProgressError)
                          /\ exit' = "fatalProgress"
                          /\ pc' = "done"
           ELSE /\ result' = StopAfterStep0(docs, step0Stats)
                /\ exit' = "stopS0"
                /\ pc' = "done"
                /\ UNCHANGED <<step1Docs, unit1, step1Results, progress>>
  /\ UNCHANGED <<files, unit0, step0Results, updatedDocuments, caseCards, total,
                 skeleton, review, cardsToS3, cardsToS4, saved, modelCalls, invoked>>
  /\ UNCHANGED libraryVars

\* one processStep1 promise resolves; a unit created before the callback
\* threw runs on after the run has returned
SettleStep1(k) ==
  /\ pc = "awaitS1" \/ exit = "fatalProgress"
  /\ unit1[k] = "pending"
  /\ \E o \in Allowed(Step1Outcomes(step1Docs[k])) :
       /\ step1Results' = [step1Results EXCEPT ![k] = processStep1(step1Docs[k], o)]
       /\ modelCalls' = IF Step1CallsModel(step1Docs[k], o)
                        THEN modelCalls \cup {[step |-> 1, unit |-> k,
                                               input |-> step1Docs[k].legalPositionParsed,
                                               answered |-> CallReturned(o)]}
                        ELSE modelCalls
  /\ unit1' = [unit1 EXCEPT ![k] = "settled"]
  /\ UNCHANGED <<files, pc, unit0, step0Results, step1Docs, documents,
                 updatedDocuments, caseCards, steps, total, skeleton, review,
                 cardsToS3, cardsToS4, saved, exit, result, progress, invoked>>
  /\ UNCHANGED libraryVars

\* mutant of MergeByFileName: the first result is taken whatever its file name
MergeByFileName_First(doc, documentsWithCards) ==
  IF documentsWithCards = <<>> THEN doc ELSE documentsWithCards[1]

\* documentsWithCards.find((d) => d.fileName === doc.fileName) || doc
MergeByFileName(doc, documentsWithCards) ==
  LET hits == {k \in DOMAIN documentsWithCards :
                 documentsWithCards[k].fileName = doc.fileName}
  IN IF hits = {} THEN doc
     ELSE documentsWithCards[CHOOSE k \in hits : \A j \in hits : k <= j]

\* updatedDocuments.filter((doc) => doc.caseCard).map((doc) => doc.caseCard)
HasCard(doc) == Truthy(doc.caseCard)

CardsOf(docs) ==
  LET withCard == SelectSeq(docs, HasCard)
  IN [k \in 1..Len(withCard) |-> withCard[k].caseCard]

\* return of the "no case cards" branch
StopAfterStep1(docs, allSteps, step0Stats, step1Stats) ==
  [documents |-> docs, caseCards |-> <<>>, reviewSkeleton |-> NoSkeleton, review |-> "",
   costStatistics |-> [steps |-> allSteps,
                       total |-> AddStep(AddStep(ZeroTotal, step0Stats), step1Stats)],
   error |-> "no case cards"]

\* mutant of NoCards: the run goes on without cards
NoCards_Never(cards) == FALSE

\* caseCards.length === 0
NoCards(cards) == Len(cards) = 0

\* the segment between the S1 join and the await of processStep3
AfterStep1 ==
  /\ pc = "awaitS1"
  /\ PromiseAll(unit1)
  /\ LET documentsWithCards == [k \in DOMAIN step1Results |-> step1Results[k].result]
         merged == [i \in DOMAIN documents |->
                      MergeByFileName(documents[i], documentsWithCards)]
         step1Stats == StepStats(1, step1Results)
         cards == CardsOf(merged)
     IN /\ updatedDocuments' = merged
        /\ steps' = Append(steps, step1Stats)
        /\ IF NoCards(cards)
           THEN /\ result' = StopAfterStep1(merged, steps', steps[1], step1Stats)
                /\ exit' = "stopS1"
                /\ pc' = "done"
                /\ UNCHANGED <<caseCards, progress, invoked>>
           ELSE \E t \in 0..2 :
                  /\ caseCards' = cards
                  /\ progress' = IF t = 1 THEN Announced(progress, 2)
                                 ELSE Announced(Announced(progress, 2), 3)
                  /\ IF t = 0
                     THEN /\ pc' = "awaitS3"
                          /\ invoked' = Append(invoked, "processStep3")
                          /\ UNCHANGED <<exit, result>>
                     ELSE /\ result' = FatalResult(ProgressError)
                          /\ exit' = "fatalProgress"
                          /\ pc' = "done"
                          /\ UNCHANGED invoked
  /\ UNCHANGED <<files, unit0, step0Results, step1Docs, unit1, step1Results,
                 documents, total, skeleton, review, cardsToS3, cardsToS4, saved,
                 modelCalls>>
  /\ UNCHANGED libraryVars

\* processStep3 / processStep4 rethrow every failure with the stage's prefix
Step3ErrorMessage(kind) == "skeleton: " \o kind
Step4ErrorMessage(kind) == "review: " \o kind

\* JSON.parse(skeletonJson) as ReviewSkeleton: the value is whatever the answer
\* holds. An object carries the caseIndices of its approaches (all n cards, all
\* but the last, or an index past the list); the answer "null" parses to null.
SkeletonAnswers(n) ==
  [kind : {"object"}, caseIndices : {1..n, 1..(n - 1), {n + 1}}]
    \cup {[kind |-> "null", caseIndices |-> {}]}

Step3Outcomes(n) ==
  [kind : StageErrors]
    \cup [kind : {"ok"}, resp : ApiResponses(3), skeleton : SkeletonAnswers(n)]

\* S4 returns the raw model text: there is nothing to parse
Step4Outcomes ==
  [kind : {PromptLoadError, InvocationError}] \cup [kind : {"ok"}, resp : ApiResponses(4)]

\* the request of a stage is built after its prompt template has loaded
RequestCards(o, cards, docs) ==
  IF o.kind = PromptLoadError THEN <<>> ELSE cardsData(cards, docs)

\* processStep3 settles: the skeleton and its statistics, then processStep4 is
\* called; a rejection lands in the catch block of the run
SettleStep3 ==
  /\ pc = "awaitS3"
  /\ \E o \in Allowed(Step3Outcomes(Len(caseCards))) :
       IF Len(caseCards) = 0
       THEN /\ result' = FatalResult("no cards for the skeleton")
            /\ exit' = "fatalS3"
            /\ pc' = "done"
            /\ UNCHANGED <<cardsToS3, skeleton, steps, modelCalls, progress, invoked>>
       ELSE /\ cardsToS3' = RequestCards(o, caseCards, updatedDocuments)
            /\ modelCalls' = IF o.kind # PromptLoadError
                             THEN modelCalls \cup {[step |-> 3, unit |-> 1,
                                                    input |-> Len(caseCards),
                                                    answered |-> CallReturned(o)]}
                             ELSE modelCalls
            /\ IF o.kind = "ok"
               THEN \E thrown \in BOOLEAN :
                      /\ skeleton' = o.skeleton
                      /\ steps' = Append(steps, SingleCallStats(3, o.resp))
                      /\ progress' = Announced(progress, 4)
                      /\ IF thrown
                         THEN /\ result' = FatalResult(ProgressError)
                              /\ exit' = "fatalProgress"
                              /\ pc' = "done"
                              /\ UNCHANGED invoked
                         ELSE /\ pc' = "awaitS4"
                              /\ invoked' = Append(invoked, "processStep4")
                              /\ UNCHANGED <<exit, result>>
               ELSE /\ result' = FatalResult(Step3ErrorMessage(o.kind))
                    /\ exit' = "fatalS3"
                    /\ pc' = "done"
                    /\ UNCHANGED <<skeleton, steps, progress, invoked>>
  /\ UNCHANGED <<files, unit0, step0Results, step1Docs, unit1, step1Results,
                 documents, updatedDocuments, caseCards, total, review, cardsToS4,
                 saved>>
  /\ UNCHANGED libraryVars

\* processStep4 settles: the review, its statistics and the run total, then
\* saveResults is called
SettleStep4 ==
  /\ pc = "awaitS4"
  /\ \E o \in Allowed(Step4Outcomes) :
       /\ cardsToS4' = RequestCards(o, caseCards, updatedDocuments)
       /\ modelCalls' = IF o.kind # PromptLoadError
                        THEN modelCalls \cup {[step |-> 4, unit |-> 1,
                                               input |-> Len(caseCards),
                                               answered |-> CallReturned(o)]}
                        ELSE modelCalls
       /\ IF o.kind = "ok"
          THEN /\ review' = "review"
               /\ steps' = Append(steps, SingleCallStats(4, o.resp))
               /\ total' = TotalOf(total, steps')
               /\ pc' = "awaitSave"
               /\ invoked' = Append(invoked, "saveResults")
               /\ UNCHANGED <<exit, result>>
          ELSE /\ result' = FatalResult(Step4ErrorMessage(o.kind))
               /\ exit' = "fatalS4"
               /\ pc' = "done"
               /\ UNCHANGED <<review, steps, total, invoked>>
  /\ UNCHANGED <<files, unit0, step0Results, step1Docs, unit1, step1Results,
                 documents, updatedDocuments, caseCards, skeleton, cardsToS3, saved,
                 progress>>
  /\ UNCHANGED libraryVars

\* mutant of NoError: the documents with an error are written too
NoError_All(doc) == TRUE

\* for (const doc of documents) { if (doc.error) continue; ... }
NoError(doc) == doc.error = ""

\* mutant of SettleSave: a failed save is logged and the review is returned
SettleSave_IgnoresFailure ==
  /\ pc = "awaitSave"
  /\ LET toSave == SelectSeq(updatedDocuments, NoError)
     IN \E n \in 0..Len(toSave), ok \in BOOLEAN :
          /\ ok => n = Len(toSave)
          /\ saved' = [k \in 1..n |-> toSave[k].fileName]
          /\ result' = [documents |-> updatedDocuments, caseCards |-> caseCards,
                        reviewSkeleton |-> skeleton, review |-> review,
                        costStatistics |-> [steps |-> steps, total |-> total],
                        error |-> ""]
          /\ exit' = IF ok THEN "success" ELSE "fatalSave"
  /\ pc' = "done"
  /\ UNCHANGED <<files, unit0, step0Results, step1Docs, unit1, step1Results,
                 documents, updatedDocuments, caseCards, steps, total, skeleton,
                 review, cardsToS3, cardsToS4, modelCalls, progress, invoked>>
  /\ UNCHANGED libraryVars

\* saveResults settles: it wrote the directories of the first n documents
\* without an error and then either finished or threw
SettleSave ==
  /\ pc = "awaitSave"
  /\ LET toSave == SelectSeq(updatedDocuments, NoError)
     IN \E n \in 0..Len(toSave), ok \in BOOLEAN :
          /\ ok => n = Len(toSave)
          /\ saved' = [k \in 1..n |-> toSave[k].fileName]
          /\ IF ok
             THEN /\ result' = [documents |-> updatedDocuments, caseCards |-> caseCards,
                                reviewSkeleton |-> skeleton, review |-> review,
                                costStatistics |-> [steps |-> steps, total |-> total],
                                error |-> ""]
                  /\ exit' = "success"
             ELSE /\ result' = FatalResult("save failed")
                  /\ exit' = "fatalSave"
  /\ pc' = "done"
  /\ UNCHANGED <<files, unit0, step0Results, step1Docs, unit1, step1Results,
                 documents, updatedDocuments, caseCards, steps, total, skeleton,
                 review, cardsToS3, cardsToS4, modelCalls, progress, invoked>>
  /\ UNCHANGED libraryVars

Next ==
  \/ StartStep0
  \/ \E i \in DOMAIN unit0 : SettleStep0(i)
  \/ AfterStep0
  \/ \E k \in DOMAIN unit1 : SettleStep1(k)
  \/ AfterStep1
  \/ SettleStep3
  \/ SettleStep4
  \/ SettleSave

Spec == Init /\ [][Next]_vars

\* the three-document batch of the isolation scenario
IsolationBatch == <<"a.docx", "b.docx", "c.docx">>

InitIsolation == InitWith(IsolationBatch)

SpecIsolation == InitIsolation /\ [][Next]_vars

\* ------------------------------------------- processStep1 called on its own
\* the DocumentProcessingResult values processStep1 accepts: any document, with
\* or without an error, with or without a parsed legal position
Step1Inputs ==
  [fileName : FileNames, caseNumber : {0, DocCaseNumber(1)},
   legalPositionParsed : 0..MaxDocs, caseCard : {NoCard},
   error : {""} \cup Step0Errors]

\* one call processStep1(document) about to run
InitStep1 ==
  \E doc \in Step1Inputs :
    /\ files = <<doc.fileName>>
    /\ pc = "awaitS1"
    /\ unit0 = <<"settled">>
    /\ step0Results = <<[result |-> doc, cost |-> ZeroCost, usage |-> ZeroUsage]>>
    /\ step1Docs = <<doc>>
    /\ unit1 = <<"pending">>
    /\ step1Results = <<Unsettled>>
    /\ documents = <<doc>>
    /\ updatedDocuments = <<>>
    /\ caseCards = <<>>
    /\ steps = <<>>
    /\ total = ZeroTotal
    /\ skeleton = NoSkeleton
    /\ review = ""
    /\ cardsToS3 = <<>>
    /\ cardsToS4 = <<>>
    /\ saved = <<>>
    /\ exit = "running"
    /\ result = NoResult
    /\ modelCalls = {}
    /\ progress = <<>>
    /\ invoked = <<>>
    /\ LibraryIdle

NextStep1 == \E k \in DOMAIN unit1 : SettleStep1(k)

SpecStep1 == InitStep1 /\ [][NextStep1]_vars

\* -------------------------------------------------------------- callOpenAI
\* prices per 1M tokens, in units of 0.0001 USD
MODEL_PRICING ==
  [m \in {"gpt-5-mini", "gpt-5", "gpt-5.1", "gpt-4o"} |->
     IF m = "gpt-5-mini"
     THEN [input |-> 2500, cached_input |-> 250, output |-> 20000]
     ELSE [input |-> 12500, cached_input |-> 1250, output |-> 100000]]

MODEL_PRICING_FLEX ==
  [m \in {"gpt-5-mini", "gpt-5", "gpt-5.1", "gpt-4o"} |->
     IF m = "gpt-5-mini"
     THEN [input |-> 1250, cached_input |-> 125, output |-> 10000]
     ELSE [input |-> 6250, cached_input |-> 625, output |-> 50000]]

\* the model argument: the default, a cheaper listed model, and the model the
\* pipeline passes for S0, which neither table lists
Models == {"gpt-5.1", "gpt-5-mini", "x-ai/grok-4.1-fast"}

\* mutant of FallbackModel: the default model is substituted
FallbackModel_Default == "gpt-5.1"

FallbackModel == "gpt-4o"

\* mutant of retryDelays: the same wait before every retry
retryDelays_Constant == <<2000, 2000, 2000>>

retryDelays == <<2000, 4000, 8000>>

\* mutant of maxRetries: one more Flex attempt than there are delays
maxRetries_Four == Len(retryDelays) + 1

maxRetries == 3

\* what a rejected openai.chat.completions.create carries: status, code, and
\* which of the substrings the code looks for occur in its message
ProviderErrors ==
  { [name |-> "capacity", status |-> 429, code |-> "resource_unavailable",
     message |-> {"Resource Unavailable"}],
    [name |-> "rate_limit", status |-> 429, code |-> "rate_limit_exceeded",
     message |-> {}],
    [name |-> "model_not_found", status |-> 404, code |-> "model_not_found",
     message |-> {"model"}],
    [name |-> "network", status |-> 0, code |-> "", message |-> {}],
    [name |-> "auth", status |-> 401, code |-> "invalid_api_key", message |-> {}],
    [name |-> "context_length", status |-> 400, code |-> "context_length_exceeded",
     message |-> {"model"}] }

\* what a resolved create carries: the completion text and the usage block
ProviderResponses ==
  [content : {"", "text"},
   usage : { [present |-> FALSE, prompt_tokens |-> 0, completion_tokens |-> 0,
              cached_tokens |-> 0, total_tokens |-> 0],
             [present |-> TRUE, prompt_tokens |-> 10, completion_tokens |-> 4,
              cached_tokens |-> 2, total_tokens |-> 14] }]

ProviderOutcomes ==
  [kind : {"response"}, response : ProviderResponses]
    \cup [kind : {"error"}, error : ProviderErrors]

\* mutant of IsCapacityError: every 429 counts as capacity exhaustion
IsCapacityError_Any429(e) == e.status = 429

\* error?.status === 429 && (message includes 'Resource Unavailable' ||
\* message includes 'resource_unavailable' || code === 'resource_unavailable')
IsCapacityError(e) ==
  /\ e.status = 429
  /\ \/ "Resource Unavailable" \in e.message
     \/ "resource_unavailable" \in e.message
     \/ e.code = "resource_unavailable"

\* status === 404 || message?.includes('model') || code === 'model_not_found'
IsModelError(e) ==
  e.status = 404 \/ "model" \in e.message \/ e.code = "model_not_found"

\* the catch block of callOpenAI wraps whatever was thrown
Thrown(cause) ==
  [NoApiResponse EXCEPT !.status = "error", !.cause = "OpenAI API: " \o cause]

\* mutant of SelectPricing: the requested tier decides the table
SelectPricing_RequestedTier(flex, m) ==
  LET table == IF useFlex THEN MODEL_PRICING_FLEX ELSE MODEL_PRICING
      entry == IF m \in DOMAIN table THEN m ELSE "gpt-5.1"
  IN [table |-> IF useFlex THEN "flex" ELSE "standard", entry |-> entry,
      price |-> table[entry]]

\* actuallyUsedFlex ? (MODEL_PRICING_FLEX[usedModel] || MODEL_PRICING_FLEX['gpt-5.1'])
\*                  : (MODEL_PRICING[usedModel] || MODEL_PRICING['gpt-5.1'])
SelectPricing(flex, m) ==
  LET table == IF flex THEN MODEL_PRICING_FLEX ELSE MODEL_PRICING
      entry == IF m \in DOMAIN table THEN m ELSE "gpt-5.1"
  IN [table |-> IF flex THEN "flex" ELSE "standard", entry |-> entry,
      price |-> table[entry]]

\* from the response to the return statement: content and usage checks, token
\* usage, prices and the cost breakdown (in units of 1e-10 USD)
Finish(response, flex, m, fellBack) ==
  IF response.content = "" THEN Thrown("empty completion")
  ELSE IF ~response.usage.present THEN Thrown("no usage")
  ELSE LET inputTokens == response.usage.prompt_tokens - response.usage.cached_tokens
           cachedInputTokens == response.usage.cached_tokens
           outputTokens == response.usage.completion_tokens
           pricing == SelectPricing(flex, m)
           inputCost == inputTokens * pricing.price.input
           cachedInputCost == cachedInputTokens * pricing.price.cached_input
           outputCost == outputTokens * pricing.price.output
       IN [status |-> "ok", cause |-> "",
           usage |-> [promptTokens |-> response.usage.prompt_tokens,
                      completionTokens |-> response.usage.completion_tokens,
                      cachedTokens |-> response.usage.cached_tokens,
                      totalTokens |-> response.usage.total_tokens],
           cost |-> [inputCost |-> inputCost, cachedInputCost |-> cachedInputCost,
                     outputCost |-> outputCost,
                     totalCost |-> inputCost + cachedInputCost + outputCost],
           pricing |-> [table |-> pricing.table, entry |-> pricing.entry],
           usedFlex |-> flex, fallbackToStandard |-> fellBack]

\* how a resolved request is entered in the log: by the two checks that follow
\* the response (!content, !usage)
ResponseKind(response) ==
  IF response.content = "" THEN "empty"
  ELSE IF ~response.usage.present THEN "no-usage"
  ELSE "ok"

\* createRequest(flexMode): one more request to the provider
Request(m, flexMode) == [model |-> m, flex |-> flexMode, outcome |-> "pending"]

\* the request awaited last has settled
Settled(log, outcome) == [log EXCEPT ![Len(log)].outcome = outcome]

PipelineIdle == PipelineStart(<<>>)

InitCall ==
  /\ PipelineIdle
  /\ ExtractIdle
  /\ ProcessIdle
  /\ apiKey \in BOOLEAN
  /\ openaiInstance \in {0, 1}
  /\ openaiInstance = 1 => apiKey
  /\ cpc = "start"
  /\ model \in Models
  /\ useFlex \in BOOLEAN
  /\ attempt = 0
  /\ usedModel = ""
  /\ actuallyUsedFlex = FALSE
  /\ fallbackToStandard = FALSE
  /\ requests = <<>>
  /\ delays = <<>>
  /\ apiResponse = NoApiResponse

\* entry of callOpenAI up to its first await: getOpenAIClient, the locals and
\* the first createRequest
CallEnter ==
  /\ cpc = "start"
  /\ IF openaiInstance = 0 /\ ~apiKey
     THEN /\ apiResponse' = Thrown("OPENAI_API_KEY")
          /\ cpc' = "thrown"
          /\ UNCHANGED <<openaiInstance, usedModel, actuallyUsedFlex, requests>>
     ELSE /\ openaiInstance' = 1
          /\ usedModel' = model
          /\ actuallyUsedFlex' = useFlex
          /\ requests' = <<Request(model, useFlex)>>
          /\ cpc' = IF useFlex THEN "flex" ELSE "standard"
          /\ UNCHANGED apiResponse
  /\ UNCHANGED <<apiKey, model, useFlex, attempt, fallbackToStandard, delays>>
  /\ UNCHANGED <<pipelineVars, extractVars, processVars>>

\* the response has arrived: the rest of callOpenAI runs to its return or throw
Return(response, log) ==
  /\ apiResponse' = Finish(response, actuallyUsedFlex, usedModel, fallbackToStandard)
  /\ cpc' = IF apiResponse'.status = "ok" THEN "returned" ELSE "thrown"
  /\ requests' = log

\* mutant of Downgrade: the standard request is sent but the flag stays unset
Downgrade_Unflagged(log) ==
  /\ actuallyUsedFlex' = FALSE
  /\ fallbackToStandard' = FALSE
  /\ requests' = Append(log, Request(usedModel, FALSE))
  /\ cpc' = "standard"

\* actuallyUsedFlex = false; fallbackToStandard = true; break; and then the
\* createRequest(false) after the loop
Downgrade(log) ==
  /\ actuallyUsedFlex' = FALSE
  /\ fallbackToStandard' = TRUE
  /\ requests' = Append(log, Request(usedModel, FALSE))
  /\ cpc' = "standard"

\* await createRequest(true) settles inside the retry loop
FlexSettles ==
  /\ cpc = "flex"
  /\ \E o \in ProviderOutcomes :
       IF o.kind = "response"
       THEN /\ Return(o.response, Settled(requests, ResponseKind(o.response)))
            /\ UNCHANGED <<actuallyUsedFlex, fallbackToStandard, delays>>
       ELSE IF IsCapacityError(o.error) /\ attempt < maxRetries - 1
       THEN /\ delays' = Append(delays, retryDelays[attempt + 1])
            /\ requests' = Settled(requests, o.error.name)
            /\ cpc' = "delay"
            /\ UNCHANGED <<actuallyUsedFlex, fallbackToStandard, apiResponse>>
       ELSE /\ Downgrade(Settled(requests, o.error.name))
            /\ UNCHANGED <<delays, apiResponse>>
  /\ UNCHANGED <<apiKey, openaiInstance, model, useFlex, attempt, usedModel>>
  /\ UNCHANGED <<pipelineVars, extractVars, processVars>>

\* await delay(retryDelays[attempt]) resolves; continue; the next createRequest(true)
DelayElapses ==
  /\ cpc = "delay"
  /\ attempt' = attempt + 1
  /\ requests' = Append(requests, Request(usedModel, TRUE))
  /\ cpc' = "flex"
  /\ UNCHANGED <<apiKey, openaiInstance, model, useFlex, usedModel, actuallyUsedFlex,
                 fallbackToStandard, delays, apiResponse>>
  /\ UNCHANGED <<pipelineVars, extractVars, processVars>>

\* await createRequest(false) for the requested model settles
StandardSettles ==
  /\ cpc = "standard"
  /\ \E o \in ProviderOutcomes :
       IF o.kind = "response"
       THEN /\ Return(o.response, Settled(requests, ResponseKind(o.response)))
            /\ UNCHANGED usedModel
       ELSE IF IsModelError(o.error)
       THEN /\ usedModel' = FallbackModel
            /\ requests' = Append(Settled(requests, o.error.name),
                                  Request(FallbackModel, FALSE))
            /\ cpc' = "fallback"
            /\ UNCHANGED apiResponse
       ELSE /\ apiResponse' = Thrown(o.error.name)
            /\ requests' = Settled(requests, o.error.name)
            /\ cpc' = "thrown"
            /\ UNCHANGED usedModel
  /\ UNCHANGED <<apiKey, openaiInstance, model, useFlex, attempt, actuallyUsedFlex,
                 fallbackToStandard, delays>>
  /\ UNCHANGED <<pipelineVars, extractVars, processVars>>

\* await createRequest(false) for gpt-4o settles; nothing catches its failure
\* before the outer catch
FallbackSettles ==
  /\ cpc = "fallback"
  /\ \E o \in ProviderOutcomes :
       IF o.kind = "response"
       THEN Return(o.response, Settled(requests, ResponseKind(o.response)))
       ELSE /\ apiResponse' = Thrown(o.error.name)
            /\ requests' = Settled(requests, o.error.name)
            /\ cpc' = "thrown"
  /\ UNCHANGED <<apiKey, openaiInstance, model, useFlex, attempt, usedModel,
                 actuallyUsedFlex, fallbackToStandard, delays>>
  /\ UNCHANGED <<pipelineVars, extractVars, processVars>>

NextCall ==
  \/ CallEnter
  \/ FlexSettles
  \/ DelayElapses
  \/ StandardSettles
  \/ FallbackSettles

SpecCall == InitCall /\ [][NextCall]_vars

\* every request to the provider returns or fails, and every delay elapses
SpecCallFair == SpecCall /\ WF_vars(NextCall)

\* ----------------------------------------------------------- JSON extraction
\* A text is a sequence of tokens: the fence (three backquotes), the tag json, the JSON
\* punctuation { } : , and the double quote, a blank, and letters.
Fence == "fence"
Quote == "dquote"

\* what a string value may hold (no quote: the strings carry no escapes)
StringChars == {"x", "{", "}", Fence}

Strings == UNION {[1..n -> StringChars] : n \in 0..MaxStringLen}

Member(key, value) == [key |-> <<key>>, value |-> value]

\* the objects rendered into the answer: flat with up to two members, or with
\* one nested object
FlatObjects ==
  {Obj(<<>>)}
    \cup {Obj(<<Member("a", Str(v))>>) : v \in Strings}
    \cup {Obj(<<Member("a", Str(v)), Member("b", Str(w))>>) : v \in Strings, w \in Strings}

Objects == FlatObjects \cup {Obj(<<Member("a", o)>>) : o \in FlatObjects}

\* JSON.stringify
RECURSIVE Render(_)
RECURSIVE RenderMembers(_)
RenderMembers(ms) ==
  IF ms = <<>> THEN <<>>
  ELSE <<Quote>> \o Head(ms).key \o <<Quote, ":">> \o Render(Head(ms).value)
         \o (IF Tail(ms) = <<>> THEN <<>> ELSE <<",">> \o RenderMembers(Tail(ms)))

Render(v) ==
  IF v.type = "string" THEN <<Quote>> \o v.chars \o <<Quote>>
  ELSE <<"{">> \o RenderMembers(v.members) \o <<"}">>

\* the prose the model puts around its fenced block
Prose == {<<>>, <<"x">>, <<"{", "x">>, <<"x", "}">>, <<Fence, "json", "x">>}

\* the answer: prose, a fenced block tagged json holding the object, prose
Answer(before, o, after) ==
  before \o <<" ", Fence, "json", " ">> \o Render(o) \o <<" ", Fence, " ">> \o after

\* String.prototype.trim
RECURSIVE TrimLeft(_)
TrimLeft(t) == IF t # <<>> /\ Head(t) = " " THEN TrimLeft(Tail(t)) ELSE t

RECURSIVE TrimRight(_)
TrimRight(t) ==
  IF t # <<>> /\ t[Len(t)] = " " THEN TrimRight(SubSeq(t, 1, Len(t) - 1)) ELSE t

Trim(t) == TrimRight(TrimLeft(t))

Min(S) == CHOOSE x \in S : \A y \in S : x <= y
Max(S) == CHOOSE x \in S : \A y \in S : x >= y

Fences(t) == {i \in DOMAIN t : t[i] = Fence}

\* text.includes(fence followed by json)
JsonFences(t) == {i \in Fences(t) : i < Len(t) /\ t[i + 1] = "json"}

\* text.match(/fence json \s*([\s\S]*?)\s* fence/) when tagged, and the same
\* without the tag otherwise: from the first opening fence to the first fence
\* after it, the lazy group stopping at that fence; [1].trim()
FenceInterior(t, tagged) ==
  LET opens == IF tagged THEN JsonFences(t) ELSE Fences(t)
      from == Min(opens) + (IF tagged THEN 2 ELSE 1)
      closes == {j \in Fences(t) : j >= from}
  IN IF closes = {} THEN [found |-> FALSE, text |-> <<>>]
     ELSE [found |-> TRUE, text |-> Trim(SubSeq(t, from, Min(closes) - 1))]

\* S0 only, when no closing fence matched:
\* replace(/^fence (json)? \s*/i, '').replace(/\s* fence$/i, '')
StripFences(t, tagged) ==
  LET opened == IF tagged THEN t # <<>> /\ 1 \in JsonFences(t)
                ELSE t # <<>> /\ t[1] = Fence
      head == IF opened
              THEN TrimLeft(SubSeq(t, IF tagged THEN 3 ELSE 2, Len(t)))
              ELSE t
  IN IF head # <<>> /\ head[Len(head)] = Fence
     THEN TrimRight(SubSeq(head, 1, Len(head) - 1))
     ELSE head

\* the first two branches of the extraction
Unfenced(st, t) ==
  LET tagged == JsonFences(t) # {}
      interior == FenceInterior(t, tagged)
  IN IF Fences(t) = {} THEN t
     ELSE IF interior.found THEN interior.text
     ELSE IF st = 0 THEN StripFences(t, tagged)
     ELSE t

\* text.match(/\{[\s\S]*\}/): from the first { to the last } after it
BraceSpan(t) ==
  LET opens == {i \in DOMAIN t : t[i] = "{"}
      closes == {j \in DOMAIN t : t[j] = "}"}
  IN IF opens # {} /\ \E j \in closes : j > Min(opens)
     THEN SubSeq(t, Min(opens), Max(closes))
     ELSE t

\* JSON.parse, for texts of strings and objects
ParseFailed == [ok |-> FALSE, value |-> Str(<<>>), next |-> 0]

RECURSIVE SkipBlanks(_, _)
SkipBlanks(t, i) == IF i <= Len(t) /\ t[i] = " " THEN SkipBlanks(t, i + 1) ELSE i

\* a string starts at t[i]: it runs to the next double quote
ParseString(t, i) ==
  LET ends == {j \in DOMAIN t : j > i /\ t[j] = Quote}
  IN IF i > Len(t) \/ t[i] # Quote \/ ends = {} THEN ParseFailed
     ELSE [ok |-> TRUE, value |-> Str(SubSeq(t, i + 1, Min(ends) - 1)),
           next |-> Min(ends) + 1]

Digits == {"0", "5"}

RECURSIVE ParseValue(_, _)
RECURSIVE ParseMembers(_, _, _)
RECURSIVE ParseElements(_, _, _)
\* the elements of an array from t[i] on, acc holding those already read
ParseElements(t, i, acc) ==
  LET value == ParseValue(t, i)
      after == SkipBlanks(t, value.next)
      elements == Append(acc, value.value)
  IN IF ~value.ok \/ after > Len(t) THEN ParseFailed
     ELSE IF t[after] = "]" THEN [ok |-> TRUE, value |-> Arr(elements), next |-> after + 1]
     ELSE IF t[after] = "," THEN ParseElements(t, SkipBlanks(t, after + 1), elements)
     ELSE ParseFailed

\* the members of an object from t[i] on, acc holding those already read
ParseMembers(t, i, acc) ==
  LET key == ParseString(t, i)
      colon == SkipBlanks(t, key.next)
      value == ParseValue(t, colon + 1)
      after == SkipBlanks(t, value.next)
      members == Append(acc, [key |-> key.value.chars, value |-> value.value])
  IN IF ~key.ok THEN ParseFailed
     ELSE IF colon > Len(t) \/ t[colon] # ":" THEN ParseFailed
     ELSE IF ~value.ok \/ after > Len(t) THEN ParseFailed
     ELSE IF t[after] = "}" THEN [ok |-> TRUE, value |-> Obj(members), next |-> after + 1]
     ELSE IF t[after] = "," THEN ParseMembers(t, SkipBlanks(t, after + 1), members)
     ELSE ParseFailed

ParseValue(t, i) ==
  LET k == SkipBlanks(t, i)
      first == SkipBlanks(t, k + 1)
  IN IF k > Len(t) THEN ParseFailed
     ELSE IF t[k] = Quote THEN ParseString(t, k)
     ELSE IF t[k] \in Digits THEN [ok |-> TRUE, value |-> Num(t[k]), next |-> k + 1]
     ELSE IF t[k] = "null" THEN [ok |-> TRUE, value |-> Null, next |-> k + 1]
     ELSE IF t[k] = "[" /\ first <= Len(t) /\ t[first] = "]"
     THEN [ok |-> TRUE, value |-> Arr(<<>>), next |-> first + 1]
     ELSE IF t[k] = "[" THEN ParseElements(t, first, <<>>)
     ELSE IF t[k] # "{" THEN ParseFailed
     ELSE IF first <= Len(t) /\ t[first] = "}"
     THEN [ok |-> TRUE, value |-> Obj(<<>>), next |-> first + 1]
     ELSE ParseMembers(t, first, <<>>)

JSONparse(t) ==
  LET r == ParseValue(t, 1)
  IN IF r.ok /\ SkipBlanks(t, r.next) > Len(t)
     THEN [ok |-> TRUE, value |-> r.value]
     ELSE NotParsed

\* the extraction of stage st applied to the answer text: trim, fences, brace
\* span, JSON.parse, and in S0 the check that the value is an object
ExtractJson(st, text) ==
  LET json == JSONparse(BraceSpan(Unfenced(st, Trim(text))))
  IN IF st = 0 /\ json.ok /\ json.value.type \notin {"object", "array"}
     THEN \* !parsed || typeof parsed !== 'object'
          NotParsed
     ELSE json

\* what the stage does with the parsed value. S0 and S3 go on with it. S1 reads
\* caseCard.caseNumber, which throws on null, and assigns document.caseNumber
\* to it when that is non-empty, which throws on a number or a string.
StageAccepts(st, json, caseNumber) ==
  /\ json.ok
  /\ st = 1 =>
       /\ json.value.type # "null"
       /\ json.value.type \in {"number", "string"} => caseNumber = 0

InitExtract ==
  /\ PipelineIdle
  /\ CallIdle
  /\ ProcessIdle
  /\ epc = "start"
  /\ stage \in {0, 1, 3}
  /\ original \in Objects
  /\ \E before \in Prose, after \in Prose : raw = Answer(before, original, after)
  /\ parsed = NotParsed
  /\ docCaseNumber \in {0, DocCaseNumber(1)}
  /\ accepted = FALSE

\* the stage extracts the JSON from the answer
Extract ==
  /\ epc = "start"
  /\ parsed' = ExtractJson(stage, raw)
  /\ accepted' = StageAccepts(stage, parsed', docCaseNumber)
  /\ epc' = "done"
  /\ UNCHANGED <<stage, original, raw, docCaseNumber>>
  /\ UNCHANGED <<pipelineVars, callVars, processVars>>

NextExtract == Extract

SpecExtract == InitExtract /\ [][NextExtract]_vars

\* answers that hold no object: a number, null, a string or an array of these
Scalars == {Num(d) : d \in Digits} \cup {Null} \cup {Str(v) : v \in Strings}

PlainValues == Scalars \cup {Arr(<<>>)} \cup {Arr(<<v>>) : v \in Scalars}

RECURSIVE RenderValue(_)
RECURSIVE RenderElements(_)
RenderElements(vs) ==
  IF vs = <<>> THEN <<>>
  ELSE RenderValue(Head(vs))
         \o (IF Tail(vs) = <<>> THEN <<>> ELSE <<",">> \o RenderElements(Tail(vs)))

\* JSON.stringify of a value that is not an object
RenderValue(v) ==
  IF v.type = "number" THEN v.chars
  ELSE IF v.type = "null" THEN <<"null">>
  ELSE IF v.type = "array" THEN <<"[">> \o RenderElements(v.members) \o <<"]">>
  ELSE Render(v)

\* the ways the model lays the value out: bare, after a word of prose, in a
\* tagged fence, in an untagged fence
PlainAnswers(v) ==
  { RenderValue(v),
    <<"x", " ">> \o RenderValue(v),
    <<Fence, "json", " ">> \o RenderValue(v) \o <<" ", Fence>>,
    <<"x", " ", Fence, " ">> \o RenderValue(v) \o <<" ", Fence, " ">> }

InitExtractPlain ==
  /\ PipelineIdle
  /\ CallIdle
  /\ ProcessIdle
  /\ epc = "start"
  /\ stage \in {0, 1, 3}
  /\ original \in PlainValues
  /\ raw \in PlainAnswers(original)
  /\ parsed = NotParsed
  /\ docCaseNumber \in {0, DocCaseNumber(1)}
  /\ accepted = FALSE

SpecExtractPlain == InitExtractPlain /\ [][NextExtract]_vars

\* ------------------------------------------------- one process, many requests
\* mutant of getOpenAIClient: a client is constructed on every call
getOpenAIClient_Fresh(instance, built) == built + 1

\* getOpenAIClient: the handle it returns, given the module-level handle and
\* the number of handles constructed so far (a new handle gets the next number)
getOpenAIClient(instance, built) == IF instance = 0 THEN built + 1 ELSE instance

Callers == 1..MaxCallers

InitClient ==
  /\ PipelineIdle
  /\ ExtractIdle
  /\ apiKey \in BOOLEAN
  /\ openaiInstance = 0
  /\ cpc = "idle"
  /\ model = ""
  /\ useFlex = FALSE
  /\ attempt = 0
  /\ usedModel = ""
  /\ actuallyUsedFlex = FALSE
  /\ fallbackToStandard = FALSE
  /\ requests = <<>>
  /\ delays = <<>>
  /\ apiResponse = NoApiResponse
  /\ caller = [c \in Callers |-> "idle"]
  /\ held = [c \in Callers |-> 0]
  /\ constructions = 0
  /\ now = 0
  /\ runPc = <<>>
  /\ sessionDir = <<>>

\* a callOpenAI invocation runs from its entry to its first await:
\* getOpenAIClient is synchronous, so its test and its assignment are one step
ClientEnter(c) ==
  /\ caller[c] \in {"idle", "settled"}
  /\ IF openaiInstance = 0 /\ ~apiKey
     THEN /\ caller' = [caller EXCEPT ![c] = "thrown"]
          /\ UNCHANGED <<openaiInstance, held, constructions>>
     ELSE /\ openaiInstance' = getOpenAIClient(openaiInstance, constructions)
          /\ constructions' = IF openaiInstance' = openaiInstance THEN constructions
                               ELSE constructions + 1
          /\ held' = [held EXCEPT ![c] = openaiInstance']
          /\ caller' = [caller EXCEPT ![c] = "awaiting"]
  /\ UNCHANGED <<apiKey, cpc, model, useFlex, attempt, usedModel, actuallyUsedFlex,
                 fallbackToStandard, requests, delays, apiResponse>>
  /\ UNCHANGED <<now, runPc, sessionDir>>
  /\ UNCHANGED <<pipelineVars, extractVars>>

\* the provider request of the invocation settles and callOpenAI returns or throws
ClientSettle(c) ==
  /\ caller[c] = "awaiting"
  /\ caller' = [caller EXCEPT ![c] = "settled"]
  /\ UNCHANGED <<held, constructions, now, runPc, sessionDir>>
  /\ UNCHANGED <<pipelineVars, callVars, extractVars>>

NextClient ==
  \/ \E c \in Callers : ClientEnter(c)
  \/ \E c \in Callers : ClientSettle(c)

SpecClient == InitClient /\ [][NextClient]_vars

\* new Date() has millisecond resolution
TicksPerMs == 2

\* new Date().toISOString().replace(/[:.]/g, '-'): the text names the
\* millisecond the clock is in, and so does the directory under processed/
Timestamp(t) == t \div TicksPerMs

Runs == 1..MaxRuns

NoDir == -1

InitSave ==
  /\ PipelineIdle
  /\ CallIdle
  /\ ExtractIdle
  /\ caller = <<>>
  /\ held = <<>>
  /\ constructions = 0
  /\ now = 0
  /\ runPc = [r \in Runs |-> "running"]
  /\ sessionDir = [r \in Runs |-> NoDir]

\* time passes
Tick ==
  /\ now < MaxClock
  /\ now' = now + 1
  /\ UNCHANGED <<caller, held, constructions, runPc, sessionDir>>
  /\ UNCHANGED <<pipelineVars, callVars, extractVars>>

\* a run reaches await saveResults(...): sessionDir is computed from the clock
\* and fs.mkdir(sessionDir, { recursive: true }) is issued
ReachSave(r) ==
  /\ runPc[r] = "running"
  /\ sessionDir' = [sessionDir EXCEPT ![r] = Timestamp(now)]
  /\ runPc' = [runPc EXCEPT ![r] = "saving"]
  /\ UNCHANGED <<caller, held, constructions, now>>
  /\ UNCHANGED <<pipelineVars, callVars, extractVars>>

\* the writes of the run have finished
FinishSave(r) ==
  /\ runPc[r] = "saving"
  /\ runPc' = [runPc EXCEPT ![r] = "saved"]
  /\ UNCHANGED <<caller, held, constructions, now, sessionDir>>
  /\ UNCHANGED <<pipelineVars, callVars, extractVars>>

NextSave ==
  \/ Tick
  \/ \E r \in Runs : ReachSave(r)
  \/ \E r \in Runs : FinishSave(r)

SpecSave == InitSave /\ [][NextSave]_vars

\* ------------------------------------------------------------ properties
Returned == pc = "done"

FailedStep0(i) == unit0[i] = "settled" /\ step0Results[i].result.error # ""

\* the S1 units that ran on the legal position of input file i
UnitsOf(i) == {k \in DOMAIN step1Docs : step1Docs[k].legalPositionParsed = i}

FailedStep1(i) ==
  \E k \in UnitsOf(i) : unit1[k] = "settled" /\ step1Results[k].result.error # ""

ProducedCard(k) == unit1[k] = "settled" /\ Truthy(step1Results[k].result.caseCard)

Step3Started == pc \in {"awaitS3", "awaitS4", "awaitSave"}
                  \/ exit \in {"fatalS3", "fatalS4", "fatalSave", "success"}

\* C1: when S3 or S4 fails, the run returns a populated error together with the
\* statistics of every stage that had completed (S0, S1, and S3 when S4 failed).
C1_CostsSurviveStageFailure ==
  (Returned /\ exit \in {"fatalS3", "fatalS4"}) =>
     /\ result.error # ""
     /\ result.costStatistics.steps = steps
     /\ Len(result.costStatistics.steps) >= 2

\* C2: every run returns one entry per input document, and every document that
\* failed carries its error message, also when S3, S4 or the save step failed.
C2_FullDocumentList ==
  Returned =>
     /\ Len(result.documents) = Len(files)
     /\ \A i \in DOMAIN files :
          (FailedStep0(i) \/ FailedStep1(i)) =>
             (i \in DOMAIN result.documents /\ result.documents[i].error # "")

\* C3: a failure of one document in S0 or S1 never aborts the run: each unit
\* resolves with a result record for its own document, and the run stops before
\* S3 only when no S0 unit produced a legal position (stop after S0) or no S1
\* unit produced a case card (stop after S1).
C3_DocumentFailureNeverAborts ==
  /\ \A i \in DOMAIN unit0 :
       unit0[i] = "settled" =>
          /\ step0Results[i].result.fileName = files[i]
          /\ (step0Results[i].result.error # "") # (step0Results[i].result.legalPositionParsed # 0)
  /\ \A k \in DOMAIN unit1 :
       unit1[k] = "settled" => step1Results[k].result.fileName = step1Docs[k].fileName
  /\ exit = "stopS0" => \A i \in DOMAIN unit0 : FailedStep0(i)
  /\ exit = "stopS1" => \A k \in DOMAIN unit1 : ~ProducedCard(k)

\* C4: an error is terminal for its document: a document errored after S0 is
\* never passed to S1, a document errored after S0 or S1 contributes no card to
\* the cards of S3 and S4, and the returned list still holds it with its error.
C4_ErrorIsTerminal ==
  /\ \A k \in DOMAIN step1Docs : Survives(step1Docs[k])
  /\ \A k \in DOMAIN caseCards :
       ~FailedStep0(caseCards[k].src) /\ ~FailedStep1(caseCards[k].src)
  /\ Returned =>
       \A i \in DOMAIN files :
          (FailedStep0(i) \/ FailedStep1(i)) =>
             /\ i \in DOMAIN result.documents
             /\ result.documents[i].error # ""
             /\ FailedStep0(i) => result.documents[i].error = step0Results[i].result.error

\* the label of a card names the document the card was produced from
LabelledWithOwnDocument(label) ==
  /\ label.fileName = files[label.src]
  /\ label.caseNumber \in {documents[label.src].caseNumber, CardCaseNumber(label.src)}

\* C5: with 3 documents of which document 2 fails conversion while every later
\* call succeeds, the output lists 3 documents, document 2 carries the conversion
\* error, documents 1 and 3 carry case cards, and every card handed to S3 and S4
\* is labelled with the file name and case number of the document that produced
\* it, never with those of the errored document.
C5_PartialDocumentIsolation ==
  ( /\ Returned
    /\ exit = "success"
    /\ Len(files) = 3
    /\ step0Results[2].result.error = ConversionError
    /\ ~FailedStep0(1) /\ ~FailedStep0(3)
    /\ \A k \in DOMAIN unit1 : step1Results[k].result.caseCard.kind = "object" )
  =>
    /\ Len(result.documents) = 3
    /\ result.documents[2].error = ConversionError
    /\ result.documents[1].caseCard.src = 1
    /\ result.documents[3].caseCard.src = 3
    /\ \A k \in DOMAIN cardsToS3 :
         LabelledWithOwnDocument(cardsToS3[k]) /\ cardsToS3[k].fileName # files[2]
    /\ \A k \in DOMAIN cardsToS4 :
         LabelledWithOwnDocument(cardsToS4[k]) /\ cardsToS4[k].fileName # files[2]

\* C6: the merge of the S1 results by file name leaves every document that
\* failed S0 untouched (same error, no case card), also when two input
\* documents have the same file name.
C6_MergeLeavesFailedUntouched ==
  updatedDocuments # <<>> =>
     \A i \in DOMAIN documents :
        documents[i].error # "" => updatedDocuments[i] = documents[i]

AllFailedStep0 == \A i \in DOMAIN unit0 : FailedStep0(i)

\* C7: when every document fails S0 the run returns an empty review, no case
\* cards, a populated error, the full documents list, and cost statistics whose
\* only stage is S0 and whose total equals the statistics of S0.
C7_AllDocumentsFailStep0 ==
  (Returned /\ AllFailedStep0) =>
     /\ result.review = ""
     /\ result.caseCards = <<>>
     /\ result.error # ""
     /\ Len(result.documents) = Len(files)
     /\ \A i \in DOMAIN files :
          /\ result.documents[i].fileName = files[i]
          /\ result.documents[i].error = step0Results[i].result.error
     /\ Len(result.costStatistics.steps) = 1
     /\ result.costStatistics.steps[1].step = 0
     /\ result.costStatistics.total.tokens = result.costStatistics.steps[1].tokens
     /\ result.costStatistics.total.cost = result.costStatistics.steps[1].cost

C7_Witness ==
  /\ Returned
  /\ AllFailedStep0
  /\ Len(files) = 2
  /\ result.documents[1].error = ConversionError
  /\ result.documents[2].error = MalformedOutputError

\* C8: when a document survives S0 but S1 produces no case card, the run stops
\* and returns the full documents list, each document with its error, no case
\* cards, an empty review, a populated error, and cost statistics holding
\* exactly the stages S0 and S1 with a total equal to their sum.
C8_NoCaseCards ==
  ( /\ Returned
    /\ \E i \in DOMAIN unit0 : ~FailedStep0(i)
    /\ \A k \in DOMAIN unit1 : ~ProducedCard(k) )
  =>
    /\ exit = "stopS1"
    /\ Len(result.documents) = Len(files)
    /\ \A i \in DOMAIN result.documents : result.documents[i].error # ""
    /\ result.caseCards = <<>>
    /\ result.review = ""
    /\ result.error # ""
    /\ Len(result.costStatistics.steps) = 2
    /\ result.costStatistics.steps[1].step = 0
    /\ result.costStatistics.steps[2].step = 1
    /\ result.costStatistics.total =
         AddStep(AddStep(ZeroTotal, result.costStatistics.steps[1]),
                 result.costStatistics.steps[2])

TokenFields == {"input", "cachedInput", "output", "total"}

\* C9: in every returned result, each token field and each cost field of
\* costStatistics.total is the sum of that field over costStatistics.steps.
C9_CostIdempotence ==
  Returned =>
     LET st == result.costStatistics.steps
         tot == result.costStatistics.total
     IN \A f \in TokenFields :
          /\ tot.tokens[f] = SumSeq([k \in 1..Len(st) |-> st[k].tokens[f]])
          /\ tot.cost[f] = SumSeq([k \in 1..Len(st) |-> st[k].cost[f]])

C9_Witness ==
  /\ Returned
  /\ exit = "success"
  /\ Len(result.costStatistics.steps) = 4
  /\ result.costStatistics.total.tokens.cachedInput = 4
  /\ result.costStatistics.total.cost.total > 0

\* C10: strict stage barrier: no S1 unit exists before every S0 unit has
\* settled, S3 does not start before every S1 unit has settled, and the results
\* of a stage are merged only after all its units have settled.
C10_StageBarrier ==
  /\ unit1 # <<>> => \A i \in DOMAIN unit0 : unit0[i] = "settled"
  /\ documents # <<>> => \A i \in DOMAIN unit0 : unit0[i] = "settled"
  /\ Step3Started => \A k \in DOMAIN unit1 : unit1[k] = "settled"
  /\ updatedDocuments # <<>> => \A k \in DOMAIN unit1 : unit1[k] = "settled"

C10_Witness ==
  /\ pc = "awaitS3"
  /\ Len(unit0) = 2
  /\ Len(unit1) = 2
  /\ \A k \in DOMAIN unit1 : unit1[k] = "settled"

Step1Called(k) == \E c \in modelCalls : c.step = 1 /\ c.unit = k

\* C11: processStep1 calls the model only for a document that has a parsed
\* legal position; given a document without one it returns the document with
\* the explicit "no legal position" error, at no cost, and calls no model.
C11_NoCallWithoutUpstream ==
  \A k \in DOMAIN step1Docs :
    unit1[k] = "settled" =>
      /\ Step1Called(k) => step1Docs[k].legalPositionParsed # 0
      /\ step1Docs[k].legalPositionParsed = 0 =>
           /\ step1Results[k].result.error = NoPositionError
           /\ step1Results[k].result.caseCard = NoCard
           /\ step1Results[k].cost = ZeroCost
           /\ ~Step1Called(k)

C11_Witness ==
  \E k \in DOMAIN step1Docs :
    /\ unit1[k] = "settled"
    /\ step1Docs[k].legalPositionParsed = 0
    /\ step1Docs[k].error = ""
    /\ step1Results[k].result.error = NoPositionError
    /\ modelCalls = {}

\* a skeleton value a caller can use: neither undefined nor null
SkeletonPresent(sk) == sk.kind = "object"

StagesCompleted ==
  /\ exit = "success"
  /\ [k \in DOMAIN steps |-> steps[k].step] = <<0, 1, 3, 4>>

\* C12: in every returned PipelineResult the review is non-empty only if the
\* error is absent, reviewSkeleton is present, caseCards is non-empty and S0,
\* S1, S3 and S4 all completed; whenever the error is set the review is empty.
C12_ReviewOnlyWhenAllStages ==
  Returned =>
    /\ result.review # "" =>
         /\ result.error = ""
         /\ SkeletonPresent(result.reviewSkeleton)
         /\ Len(result.caseCards) > 0
         /\ StagesCompleted
    /\ result.error # "" => result.review = ""

\* a document survived S0 and S1: one of the S1 units resolved with a card
SomeDocumentSurvived == \E k \in DOMAIN step1Docs : ProducedCard(k)

Settles == cpc \in {"returned", "thrown"}

FlexRequests == {i \in DOMAIN requests : requests[i].flex}

StandardRequests == {i \in DOMAIN requests : ~requests[i].flex}

\* the request log starts with these outcomes, in this order
StartsWith(outcomes) ==
  /\ Len(requests) >= Len(outcomes)
  /\ \A i \in DOMAIN outcomes : requests[i].outcome = outcomes[i]

\* the breakdown callOpenAI computes from the usage block with a price entry
CostAt(price) ==
  LET u == apiResponse.usage
  IN [inputCost |-> (u.promptTokens - u.cachedTokens) * price.input,
      cachedInputCost |-> u.cachedTokens * price.cached_input,
      outputCost |-> u.completionTokens * price.output,
      totalCost |-> (u.promptTokens - u.cachedTokens) * price.input
                      + u.cachedTokens * price.cached_input
                      + u.completionTokens * price.output]

\* C14: with the Flex tier requested, capacity exhaustion on the first two
\* attempts and a good response to the third, the call returns a result served
\* by Flex (usedFlex, no fallbackToStandard, Flex prices) after exactly 3 Flex
\* requests and the waits that 3 attempts take (2 s, then 4 s), and no
\* standard-tier request is made.
C14_FlexRetrySucceeds ==
  (useFlex /\ StartsWith(<<"capacity", "capacity", "ok">>)) =>
    /\ cpc = "returned"
    /\ apiResponse.status = "ok"
    /\ apiResponse.usedFlex
    /\ ~apiResponse.fallbackToStandard
    /\ apiResponse.pricing.table = "flex"
    /\ apiResponse.cost = CostAt(MODEL_PRICING_FLEX[apiResponse.pricing.entry])
    /\ Len(requests) = 3
    /\ StandardRequests = {}
    /\ delays = <<2000, 4000>>

C14_Witness ==
  /\ useFlex
  /\ StartsWith(<<"capacity", "capacity", "ok">>)
  /\ cpc = "returned"
  /\ Len(delays) = 2

\* C15: with the Flex tier requested and capacity exhaustion on all 3 Flex
\* attempts, exactly one further request is made for the same model, on the
\* standard tier, and if it succeeds the call returns a successful result with
\* fallbackToStandard true and usedFlex false.
C15_FlexExhaustedDowngrades ==
  (useFlex /\ StartsWith(<<"capacity", "capacity", "capacity">>)) =>
    /\ FlexRequests = {1, 2, 3}
    /\ Len(requests) >= 4
    /\ requests[4].model = model
    /\ {i \in StandardRequests : requests[i].model = model} = {4}
    /\ requests[4].outcome = "ok" =>
         /\ cpc = "returned"
         /\ Len(requests) = 4
         /\ apiResponse.status = "ok"
         /\ apiResponse.fallbackToStandard
         /\ ~apiResponse.usedFlex

C15_Witness ==
  /\ useFlex
  /\ StartsWith(<<"capacity", "capacity", "capacity", "ok">>)
  /\ cpc = "returned"
  /\ apiResponse.fallbackToStandard

\* outcomes of a request that was answered with a response
Answered == {"ok", "empty", "no-usage"}

\* C16: when a Flex attempt fails with an error other than capacity
\* exhaustion, no further Flex attempt and no wait follow it; the next request
\* is the same request on the standard tier, and the call fails only if a
\* standard-tier request fails or its response is unusable.
C16_OtherFlexErrorDowngrades ==
  \A i \in FlexRequests :
    requests[i].outcome \notin Answered \cup {"pending", "capacity"} =>
      /\ \A j \in FlexRequests : j <= i
      /\ Len(delays) = i - 1
      /\ Len(requests) > i
      /\ requests[i + 1].model = model /\ ~requests[i + 1].flex
      /\ cpc = "thrown" =>
           /\ ~requests[Len(requests)].flex
           /\ requests[Len(requests)].outcome \notin {"ok", "pending"}

C16_Witness ==
  /\ Len(requests) = 3
  /\ requests[1].outcome = "capacity"
  /\ requests[2].flex /\ requests[2].outcome = "rate_limit"
  /\ requests[3].outcome = "ok"
  /\ cpc = "returned"

\* C17: when the standard-tier request for the requested model fails with
\* "model not found", exactly one more request is made, for gpt-4o on the
\* standard tier; if it succeeds the call returns a result priced with the
\* standard entry of gpt-4o, and if it fails the call fails with no further
\* request.
C17_ModelFallback ==
  \A i \in StandardRequests :
    (requests[i].model = model /\ requests[i].outcome = "model_not_found") =>
      /\ Len(requests) = i + 1
      /\ requests[i + 1].model = "gpt-4o" /\ ~requests[i + 1].flex
      /\ requests[i + 1].outcome = "ok" =>
           /\ cpc = "returned"
           /\ apiResponse.status = "ok"
           /\ apiResponse.pricing = [table |-> "standard", entry |-> "gpt-4o"]
           /\ apiResponse.cost = CostAt(MODEL_PRICING["gpt-4o"])
      /\ requests[i + 1].outcome \notin {"ok", "pending"} =>
           cpc = "thrown" /\ apiResponse.status = "error"

C17_Witness ==
  /\ ~useFlex
  /\ StartsWith(<<"model_not_found", "ok">>)
  /\ cpc = "returned"
  /\ apiResponse.pricing.entry = "gpt-4o"

\* the provider's own signals that the requested model does not exist
ModelUnavailable == {"model_not_found"}

\* C18: a standard-tier failure that is not a model-unavailable failure, an
\* empty completion and a missing usage block each make the call fail with an
\* error that wraps the cause, and no request is issued after it.
C18_OtherFailuresNeverRetried ==
  \A i \in DOMAIN requests :
    \/ ~requests[i].flex /\ requests[i].outcome \notin Answered \cup ModelUnavailable
                                                              \cup {"pending"}
    \/ requests[i].outcome \in {"empty", "no-usage"}
    => /\ Len(requests) = i
       /\ cpc = "thrown"
       /\ apiResponse.status = "error"
       /\ apiResponse.cause # ""

\* the request that was answered with the response the call returned
Served == requests[Len(requests)]

\* C19: a returned result is priced by the model and the tier of the request
\* that was answered: Flex prices exactly when that request was a Flex request
\* (Flex requested and no downgrade), which is also what usedFlex reports,
\* standard prices otherwise, and the gpt-5.1 entry of that tier when the
\* model is not in the table.
C19_PricingByModelAndTier ==
  cpc = "returned" =>
    LET table == IF Served.flex THEN MODEL_PRICING_FLEX ELSE MODEL_PRICING
        entry == IF Served.model \in {"gpt-5-mini", "gpt-5", "gpt-5.1", "gpt-4o"}
                 THEN Served.model ELSE "gpt-5.1"
    IN /\ Served.flex <=> (useFlex /\ ~apiResponse.fallbackToStandard)
       /\ apiResponse.usedFlex <=> Served.flex
       /\ apiResponse.pricing.table = (IF Served.flex THEN "flex" ELSE "standard")
       /\ apiResponse.pricing.entry = entry
       /\ apiResponse.cost = CostAt(table[entry])

C19_Witness ==
  /\ cpc = "returned"
  /\ useFlex
  /\ ~Served.flex
  /\ model = "x-ai/grok-4.1-fast"
  /\ Served.model = model
  /\ apiResponse.pricing = [table |-> "standard", entry |-> "gpt-5.1"]

\* ------------------------------------------ properties of the JSON extraction
\* C20: for every object O and every prose around it, extracting from the
\* answer that holds O in a fenced block tagged json yields an object
\* deep-equal to O, in S0, S1 and S3.
C20_ExtractionRoundTrip ==
  epc = "done" => parsed = [ok |-> TRUE, value |-> original]

\* C21: a stage goes on with a parsed value only when the value is an object;
\* for an answer that holds no object (a bare number, a string, null, an
\* array) the stage reports malformed output instead.
C21_OnlyObjectsAccepted ==
  (epc = "done" /\ accepted) => parsed.value.type = "object"

\* the units of a fan-out stage whose promise has resolved
SettledUnits(step) ==
  IF step = 0 THEN {i \in DOMAIN unit0 : unit0[i] = "settled"}
  ELSE {k \in DOMAIN unit1 : unit1[k] = "settled"}

\* C22: a progress callback of S0 or S1 with completed count k >= 1 is made
\* only after a unit has completed, so at least k units of that stage have
\* settled whenever such a callback has been made.
C22_ProgressAfterCompletion ==
  \A e \in DOMAIN progress :
    (progress[e].step \in {0, 1} /\ progress[e].current >= 1)
      => Cardinality(SettledUnits(progress[e].step)) >= progress[e].current

\* the stages the run has started so far
ScheduledStages == {progress[e].step : e \in DOMAIN progress}

AllZero(stats) == stats.tokens = ZeroTotal.tokens /\ stats.cost = ZeroTotal.cost

\* C23: in a returned costStatistics the step numbers are pairwise distinct and
\* every stage the run scheduled, the pass-through S2 included, has an entry,
\* which is all-zero when the stage made no model call.
C23_EveryScheduledStageCounted ==
  Returned =>
    LET counted == result.costStatistics.steps
    IN /\ \A j, k \in DOMAIN counted : counted[j].step = counted[k].step => j = k
       /\ \A st \in ScheduledStages :
            \E k \in DOMAIN counted :
              /\ counted[k].step = st
              /\ (\A c \in modelCalls : c.step # st) => AllZero(counted[k])

\* the same statement on the runs that returned a review
C23_SuccessCountsEveryStage ==
  (Returned /\ exit = "success") =>
    \A st \in ScheduledStages :
      \E k \in DOMAIN result.costStatistics.steps :
        result.costStatistics.steps[k].step = st

\* processStep1 of unit k resolves in this step, the model having answered o
Step1Resolves(k, o) ==
  /\ unit1[k] = "pending"
  /\ unit1'[k] = "settled"
  /\ step1Results'[k] = processStep1(step1Docs[k], o)

\* C24: when processStep1 succeeds with a card object, the card's caseNumber is
\* the one the model wrote when it wrote one, and otherwise the case number S0
\* extracted for the document, when that is non-empty.
C24_CaseNumberInjected ==
  [][\A k \in DOMAIN unit1 :
       \A o \in Step1Outcomes(step1Docs[k]) :
         (Step1Resolves(k, o) /\ o.kind = "object"
            /\ step1Results'[k].result.error = "")
           => LET card == step1Results'[k].result.caseCard
                  doc == step1Docs[k]
              IN /\ o.caseNumber # Absent => card.caseNumber = o.caseNumber
                 /\ (o.caseNumber = Absent /\ doc.caseNumber # 0)
                      => card.caseNumber = doc.caseNumber]_vars

C24_Witness ==
  \E k \in DOMAIN unit1 :
    /\ unit1[k] = "settled"
    /\ step1Results[k].result.error = ""
    /\ step1Docs[k].caseNumber # 0
    /\ step1Results[k].result.caseCard.kind = "object"
    /\ step1Results[k].result.caseCard.caseNumber = step1Docs[k].caseNumber

\* C25: when saveResults throws, the run returns a populated error, an empty
\* review and no skeleton, documents or cards; it does not return success.
C25_SaveFailureIsFatal ==
  (Returned /\ exit = "fatalSave") =>
     /\ result.error # ""
     /\ result.review = ""
     /\ result.reviewSkeleton = NoSkeleton
     /\ result.documents = <<>>
     /\ result.caseCards = <<>>

\* the review had been computed, and part of the documents written, when the
\* save failed
C25_Witness ==
  /\ Returned
  /\ exit = "fatalSave"
  /\ review # ""
  /\ saved # <<>>
  /\ result.review = ""
  /\ result.error # ""

\* C26: however the callOpenAI invocations interleave, new OpenAI(...) runs at
\* most once, and every handle getOpenAIClient has returned is the handle the
\* module holds now: it was never replaced or torn down.
C26_ClientConstructedOnce ==
  /\ constructions <= 1
  /\ \A c \in DOMAIN held : held[c] # 0 => held[c] = openaiInstance

\* two invocations in flight and a third that has returned, all on one handle
C26_Witness ==
  \E c, d, e \in DOMAIN caller :
    /\ c # d
    /\ caller[c] = "awaiting"
    /\ caller[d] = "awaiting"
    /\ caller[e] = "settled"
    /\ held[c] = held[d]
    /\ held[e] = held[c]
    /\ held[c] # 0
    /\ constructions = 1

\* C27: any two runs that reached the save step, at the same instant or not,
\* write to distinct run directories.
C27_DistinctRunDirectories ==
  \A r, q \in DOMAIN runPc :
    (r # q /\ runPc[r] # "running" /\ runPc[q] # "running")
      => sessionDir[r] # sessionDir[q]

\* C28: a returned documents list that is not empty has one entry per input
\* file, and entry i carries the file name of input i, whatever the order in
\* which the units completed.
C28_DocumentsInInputOrder ==
  (Returned /\ result.documents # <<>>) =>
     /\ Len(result.documents) = Len(files)
     /\ \A i \in DOMAIN files : result.documents[i].fileName = files[i]

\* two differently named inputs, the second of which got its card, returned
\* with their documents
C28_Witness ==
  /\ Returned
  /\ Len(files) = 2
  /\ files[1] # files[2]
  /\ Len(result.documents) = 2
  /\ result.documents[2].fileName = files[2]
  /\ Truthy(result.documents[2].caseCard)

CallsOf(st) == {c \in modelCalls : c.step = st}

\* past the S0 barrier with no document that survived S0
StoppedAfterS0 ==
  /\ pc \notin {"start", "awaitS0"}
  /\ \A i \in DOMAIN documents : ~Survives(documents[i])

\* past the S1 barrier with no case card
StoppedAfterS1 ==
  /\ pc \notin {"start", "awaitS0", "awaitS1"}
  /\ CardsOf(updatedDocuments) = <<>>

\* C29: a run that stops after S0 starts no S1 unit and makes no S1, S3 or S4
\* model call; a run that stops after S1 makes no S3 or S4 model call; neither
\* invokes a later stage or saveResults, so nothing is written.
C29_NothingAfterTheStop ==
  /\ StoppedAfterS0 =>
       /\ unit1 = <<>>
       /\ CallsOf(1) = {}
  /\ (StoppedAfterS0 \/ StoppedAfterS1) =>
       /\ CallsOf(3) = {}
       /\ CallsOf(4) = {}
       /\ invoked = <<>>
       /\ saved = <<>>
       /\ Returned

\* a run that stopped after S1, its S1 call made and failed
C29_Witness ==
  /\ StoppedAfterS1
  /\ ~StoppedAfterS0
  /\ exit = "stopS1"
  /\ CallsOf(1) # {}
  /\ invoked = <<>>

StageCounted(st) == \E k \in DOMAIN steps : steps[k].step = st

\* C30: processStep3, processStep4 and saveResults are each invoked at most
\* once and in this order: processStep3 only after every S1 unit has settled,
\* processStep4 only after processStep3 succeeded, saveResults only after
\* processStep4 succeeded; saveResults writes the files of a document only when
\* the document carries no error.
C30_TailRunsOnceInOrder ==
  /\ invoked = SubSeq(<<"processStep3", "processStep4", "saveResults">>, 1, Len(invoked))
  /\ Len(invoked) >= 1 =>
       /\ PromiseAll(unit0)
       /\ PromiseAll(unit1)
       /\ pc \notin {"start", "awaitS0", "awaitS1"}
  /\ Len(invoked) >= 2 => StageCounted(3) /\ CallsOf(3) # {}
  /\ Len(invoked) >= 3 => StageCounted(4) /\ CallsOf(4) # {} /\ review # ""
  /\ saved # <<>> => Len(invoked) = 3
  /\ \A k \in DOMAIN saved :
       \E i \in DOMAIN updatedDocuments :
         /\ updatedDocuments[i].fileName = saved[k]
         /\ updatedDocuments[i].error = ""
  /\ Len(saved) <= Cardinality({i \in DOMAIN updatedDocuments :
                                   updatedDocuments[i].error = ""})

\* a successful run of two documents, one of which failed and was not written
C30_Witness ==
  /\ exit = "success"
  /\ Len(invoked) = 3
  /\ Len(saved) = 1
  /\ \E i \in DOMAIN updatedDocuments : updatedDocuments[i].error # ""

\* a collaborator of the run has failed: a unit of S0 or S1 settled with an
\* error, or the run left through its catch block
CollaboratorFailed ==
  \/ \E i \in DOMAIN unit0 : FailedStep0(i)
  \/ \E k \in DOMAIN unit1 : unit1[k] = "settled" /\ step1Results[k].result.error # ""
  \/ exit \in {"fatalS3", "fatalS4", "fatalSave", "fatalProgress"}

ErrorReported(r) ==
  \/ r.error # ""
  \/ \E i \in DOMAIN r.documents : r.documents[i].error # ""

\* C31: the run never rejects: whatever collaborator fails (converter, prompt
\* loader, model, progress callback, persistence), it settles with a
\* PipelineResult, and the failure is reported in an error field of the result.
C31_FailuresReportedNeverThrown ==
  Returned =>
    /\ result # NoResult
    /\ CollaboratorFailed => ErrorReported(result)

\* the part of C31 about the way the run ends: it resolves with a result, and
\* a run that left through the catch block carries the error message
C31_ResolvesWithResult ==
  Returned =>
    /\ result # NoResult
    /\ exit # "running"
    /\ exit \in {"fatalS3", "fatalS4", "fatalSave", "fatalProgress"} => result.error # ""

\* every run settles
C31_Settles == <>Returned

SpecFair == Spec /\ WF_vars(Next)

\* C32: the calls value recorded for a stage equals the number of model
\* invocations issued in that stage; a unit that failed before it reached the
\* model does not add to it.
C32_CallsCountInvocations ==
  \A k \in DOMAIN steps : steps[k].calls = Cardinality(CallsOf(steps[k].step))

\* the invocations of a stage that resolved with a response
AnsweredCalls(st) == {c \in CallsOf(st) : c.answered}

ResponseOf(st) == CHOOSE r \in ApiResponses(st) : TRUE

\* C33: every model call of S0 or S1 that returned a response adds its token
\* usage and its cost to the statistics of its stage, also when the response
\* could not be parsed and the document was marked errored.
C33_AnsweredCallsAreCounted ==
  \A k \in DOMAIN steps :
    steps[k].step \in {0, 1} =>
      LET n == Cardinality(AnsweredCalls(steps[k].step))
          r == ResponseOf(steps[k].step)
      IN /\ steps[k].tokens.total = n * r.usage.totalTokens
         /\ steps[k].cost.total = n * r.cost.totalCost

\* the S1 unit settled without an error
SucceededStep1(r) == r.result.error = ""

\* the cards of the S1 units that succeeded, in the order of the units, which
\* is the order of their documents
CardsProduced ==
  LET succeeded == SelectSeq(step1Results, SucceededStep1)
  IN [k \in DOMAIN succeeded |-> succeeded[k].result.caseCard]

\* C34: the returned caseCards list holds the card of every successful S1 unit
\* exactly once and in document order, so its length is the number of
\* successful S1 units, whether or not file names repeat in the batch.
C34_EveryCardOnce ==
  (Returned /\ exit = "success") => result.caseCards = CardsProduced

\* the same statement for the runs whose S1 answers were all objects
C34_EveryObjectCardOnce ==
  (Returned /\ exit = "success"
     /\ \A k \in DOMAIN CardsProduced : CardsProduced[k].kind = "object")
    => result.caseCards = CardsProduced

\* C35: every document of a documents list returned after the S1 barrier
\* carries either an error and no case card, or a case card and no error.
C35_ErrorOrCard ==
  (Returned /\ exit \in {"stopS1", "success"}) =>
    \A i \in DOMAIN result.documents :
      (result.documents[i].error # "") # HasCard(result.documents[i])

FallbackRequests == {i \in DOMAIN requests : requests[i].model = FallbackModel}

\* the bound of C36 on the requests one invocation issues
RequestsBounded ==
  /\ Len(requests) <= (IF useFlex THEN 5 ELSE 2)
  /\ Cardinality(FlexRequests) <= (IF useFlex THEN 3 ELSE 0)
  /\ Cardinality(StandardRequests \ FallbackRequests) <= 1
  /\ Cardinality(FallbackRequests) <= 1
  /\ \A i \in FallbackRequests : i = Len(requests) /\ ~requests[i].flex

\* C36: one callOpenAI invocation issues at most 5 provider requests when Flex
\* is requested (3 Flex attempts, 1 standard request, 1 request for the
\* fallback model) and at most 2 when it is not; the request for the fallback
\* model is the last one, and the invocation settles.
C36_BoundedRequests == []RequestsBounded /\ <>Settles

\* five requests: three Flex attempts out of capacity, the standard request
\* refused for the model, the fallback request settled
C36_Witness ==
  /\ Settles
  /\ useFlex
  /\ Len(requests) = 5
  /\ Cardinality(FlexRequests) = 3
  /\ requests[5].model = FallbackModel

\* the Flex attempts that have failed with capacity exhaustion
CapacityFailures ==
  {i \in FlexRequests : requests[i].outcome = "capacity"}

\* C37: the waits of one invocation are 2 s after the first capacity failure
\* of a Flex attempt and 4 s after the second; none follows the third, so the
\* 8 s delay is never applied, and none follows any other error: the k-th wait
\* exists exactly when the k-th Flex attempt, k <= 2, ran out of capacity.
C37_BackoffSchedule ==
  /\ delays \in {<<>>, <<2000>>, <<2000, 4000>>}
  /\ \A k \in DOMAIN delays :
       /\ k \in CapacityFailures
       /\ Len(requests) > k => requests[k + 1].flex
  /\ \A k \in CapacityFailures : k <= 2 => Len(delays) >= k
  /\ \A i \in DOMAIN requests :
       (i > 1 /\ ~requests[i].flex /\ 3 \in CapacityFailures)
         => delays = <<2000, 4000>>

\* three capacity failures, then the standard request: two waits were made
C37_Witness ==
  /\ CapacityFailures = {1, 2, 3}
  /\ Len(requests) >= 4
  /\ ~requests[4].flex
  /\ delays = <<2000, 4000>>

\* C38: over one run the progress callbacks come with a non-decreasing stage
\* index, each with 0 <= current <= total, and within S0 and within S1 the
\* current values strictly increase from the stage-start callback on.
C38_ProgressMonotonic ==
  /\ \A e \in DOMAIN progress :
       /\ 0 <= progress[e].current
       /\ progress[e].current <= progress[e].total
  /\ \A e, f \in DOMAIN progress :
       e < f =>
         /\ progress[e].step <= progress[f].step
         /\ (progress[e].step = progress[f].step /\ progress[e].step \in {0, 1})
              => progress[e].current < progress[f].current

\* a run of two documents that announced every stage
C38_Witness ==
  /\ \E e \in DOMAIN progress : progress[e].step = 0 /\ progress[e].current = 2
  /\ \E e \in DOMAIN progress : progress[e].step = 1 /\ progress[e].current = 2
  /\ \E e \in DOMAIN progress : progress[e].step = 4
  /\ Len(progress) = 9

C39_CallWitness ==
  /\ ~apiKey
  /\ cpc = "thrown"
  /\ requests = <<>>

====
